---- MODULE Spec2Model ----
(***************************************************************************)
(* Parthenon HDF5 output: one output event of                              *)
(* PHDF5Output::WriteOutputFileImpl over the MPI ranks of a run.           *)
(*                                                                         *)
(* Strings are sequences of byte values (std::string / std::vector<char>), *)
(* a std::set<VarInfo> is the sequence of its elements in iteration order, *)
(* ranks are 0 .. nranks-1.                                                *)
(***************************************************************************)
EXTENDS Integers, Sequences, FiniteSets, TLC

(***************************************************************************)
(* Bounds of the model.                                                    *)
(***************************************************************************)
\* largest number of ranks of a run
MaxRanks == 2
\* largest number of mesh blocks of a run (pm->nbtotal)
MaxNbTotal == 3
\* longest raw gathered label buffer handed to the label parser
MaxBufLen == 4
\* largest number of gathered codes handed to the label parser
MaxCodes == 2
\* half width of the windows of component counts tried around 0 and max_vlen
VlenWindow == 2
\* number of mesh blocks of the logical mesh that is spread over 1, 2, 4 ranks
LogicalBlocks == 4
\* cells of a block written per direction (out_ib, out_jb, out_kb)
nx1 == 2
nx2 == 1
nx3 == 1

(***************************************************************************)
(* Bytes.                                                                  *)
(***************************************************************************)
TAB == 9
NUL == 0

\* std::string::operator< : lexicographic comparison of the bytes
RECURSIVE StrLess(_, _)
StrLess(s, t) ==
  IF t = <<>> THEN FALSE
  ELSE IF s = <<>> THEN TRUE
  ELSE IF Head(s) < Head(t) THEN TRUE
  ELSE IF Head(s) > Head(t) THEN FALSE
  ELSE StrLess(Tail(s), Tail(t))

\* x & mask for a non-negative int x and a mask 2^k - 1: the k low bits of x
LowBits(x, mask) == x % (mask + 1)

\* (x & flag) > 0 for a non-negative int x and a flag 2^k: bit k of x
TestBit(x, flag) == (x \div flag) % 2 = 1

(***************************************************************************)
(* struct VarInfo                                                          *)
(***************************************************************************)
max_vlen == (2 ^ 16) - 1
sparse_flag == 2 ^ 20
vector_flag == 2 ^ 21

\* Decode with a mask one bit short for the component count
DecodeNarrow(label, info_code) ==
  [label     |-> label,
   vlen      |-> LowBits(info_code, (2 ^ 15) - 1),
   is_sparse |-> TestBit(info_code, sparse_flag),
   is_vector |-> TestBit(info_code, vector_flag)]

\* VarInfo::Decode
Decode(label, info_code) ==
  [label     |-> label,
   vlen      |-> LowBits(info_code, max_vlen),
   is_sparse |-> TestBit(info_code, sparse_flag),
   is_vector |-> TestBit(info_code, vector_flag)]

\* the range check without its upper limit
VarInfoFailsLow(var) == var.dim4 <= 0

\* the range check of the constructor VarInfo(var); var is a CellVariable seen
\* through label(), GetDim(4), IsSparse(), IsSet(Metadata::Vector)
VarInfoFails(var) == (var.dim4 <= 0) \/ (var.dim4 > max_vlen)

\* the member initialisers of the constructor VarInfo(var)
VarInfo(var) ==
  [label     |-> var.label,
   vlen      |-> var.dim4,
   is_sparse |-> var.sparse,
   is_vector |-> var.vector]

\* VarInfo::get_info_code
get_info_code(vi) ==
  vi.vlen + (IF vi.is_sparse THEN sparse_flag ELSE 0)
          + (IF vi.is_vector THEN vector_flag ELSE 0)

\* operator< with the operands of the comparison exchanged
LessReversed(a, b) == StrLess(b.label, a.label)

\* VarInfo::operator< : the value returned
Less(a, b) == StrLess(a.label, b.label)

\* operator< without the check of the lengths
LessNeverFails(a, b) == FALSE

\* VarInfo::operator< : the PARTHENON_FAIL on one label with two lengths
LessFails(a, b) == (a.label = b.label) /\ (a.vlen # b.vlen)

(***************************************************************************)
(* std::set<VarInfo>::insert under VarInfo::operator<.  The search of the  *)
(* tree compares x with an element of equal label whenever there is one,   *)
(* so a second length for a label always reaches PARTHENON_FAIL; an        *)
(* element equivalent to x keeps its place and x is dropped.               *)
(***************************************************************************)
SetInsert(S, x) ==
  IF \E i \in 1..Len(S) : LessFails(x, S[i])
  THEN [fails |-> TRUE, set |-> S]
  ELSE IF \E i \in 1..Len(S) : ~Less(x, S[i]) /\ ~Less(S[i], x)
  THEN [fails |-> FALSE, set |-> S]
  ELSE LET k == Cardinality({i \in 1..Len(S) : Less(S[i], x)})
       IN  [fails |-> FALSE,
            set   |-> SubSeq(S, 1, k) \o <<x>> \o SubSeq(S, k + 1, Len(S))]

\* ci.vars of all blocks of pm->block_list, in the order the loops visit them
RECURSIVE Flatten(_)
Flatten(blocks) ==
  IF blocks = <<>> THEN <<>> ELSE Head(blocks) \o Flatten(Tail(blocks))

\* the body of the loops that build the local list of unique vars
RECURSIVE InsertVars(_, _)
InsertVars(S, vs) ==
  IF vs = <<>> THEN [err |-> "none", set |-> S]
  ELSE IF VarInfoFails(Head(vs)) THEN [err |-> "vlen", set |-> S]
  ELSE LET ins == SetInsert(S, VarInfo(Head(vs)))
       IN  IF ins.fails THEN [err |-> "lengths", set |-> S]
           ELSE InsertVars(ins.set, Tail(vs))

(***************************************************************************)
(* Serialisation of the local set.                                         *)
(***************************************************************************)
RECURSIVE LabelBuffer(_)
LabelBuffer(S) ==
  IF S = <<>> THEN <<>>
  ELSE Head(S).label \o <<TAB>> \o LabelBuffer(Tail(S))

CodeBuffer(S) == [i \in 1..Len(S) |-> get_info_code(S[i])]

(***************************************************************************)
(* The all-gather of the serialised sets.                                  *)
(***************************************************************************)
\* label_lengths[n] and code_lengths[n] read from the gathered buffer_lengths
LabelLengths(bl, nr) == [n \in 0..(nr - 1) |-> bl[2 * n + 1]]
CodeLengths(bl, nr)  == [n \in 0..(nr - 1) |-> bl[2 * n + 2]]

\* label_offsets[n], code_offsets[n] : running sum of the lengths of ranks < n;
\* Offsets(lens, nr) is the final label_offset / code_offset
RECURSIVE Offsets(_, _)
Offsets(lens, n) == IF n = 0 THEN 0 ELSE Offsets(lens, n - 1) + lens[n - 1]

\* data copied over recv from the (0-based) offset off on
Overwrite(recv, off, data) ==
  SubSeq(recv, 1, off) \o data \o SubSeq(recv, off + Len(data) + 1, Len(recv))

\* result buffer of the given size filled with fill, with the rank's own
\* buffer copied to its offset (the two memcpy)
OwnPart(size, fill, own, off) == Overwrite([i \in 1..size |-> fill], off, own)

\* MPI_Allgatherv into recv, ranks n .. nr-1: the lens[n] elements sent by
\* rank n land at the offset of rank n
RECURSIVE AllgathervFrom(_, _, _, _, _)
AllgathervFrom(recv, sent, lens, nr, n) ==
  IF n >= nr THEN recv
  ELSE AllgathervFrom(Overwrite(recv, Offsets(lens, n), SubSeq(sent[n], 1, lens[n])),
                      sent, lens, nr, n + 1)

\* a gather that delivers nothing from the other ranks
AllgathervOwn(recv, sent, lens, nr) == recv

Allgatherv(recv, sent, lens, nr) == AllgathervFrom(recv, sent, lens, nr, 0)

(***************************************************************************)
(* Unpacking the gathered labels.  all_labels_buffer is a std::vector<char>*)
(* without a terminating NUL, so a strchr that finds neither tab nor NUL   *)
(* inside the buffer reads past its end: what it finds there is not        *)
(* determined by the program (oob).                                        *)
(***************************************************************************)
\* what a read past the end of the buffer can meet first: a NUL, a tab after
\* some other bytes, or an unmapped page
OobOutcomes ==
  {[hit |-> "nul", junk |-> <<>>], [hit |-> "segv", junk |-> <<>>],
   [hit |-> "tab", junk |-> <<>>], [hit |-> "tab", junk |-> <<63>>]}

\* the unpacking reads past the end of buf exactly when the bytes after the
\* last tab or NUL of buf are not empty
ReadsPastEnd(buf) == buf # <<>> /\ buf[Len(buf)] # TAB /\ buf[Len(buf)] # NUL

\* the outcomes of the reads past the end that unpacking buf makes
OobFor(buf) ==
  IF ReadsPastEnd(buf) THEN OobOutcomes ELSE {[hit |-> "none", junk |-> <<>>]}

\* strchr(curr, '\t') : the scan from curr for the first tab or NUL
RECURSIVE StrChr(_, _, _)
StrChr(buf, curr, oob) ==
  IF curr <= Len(buf)
  THEN IF buf[curr] = TAB THEN [kind |-> "tab", pos |-> curr, junk |-> <<>>]
       ELSE IF buf[curr] = NUL THEN [kind |-> "null", pos |-> 0, junk |-> <<>>]
       ELSE StrChr(buf, curr + 1, oob)
  ELSE IF oob.hit = "tab"
       THEN [kind |-> "tab", pos |-> Len(buf) + Len(oob.junk) + 1, junk |-> oob.junk]
  ELSE IF oob.hit = "nul" THEN [kind |-> "null", pos |-> 0, junk |-> <<>>]
  ELSE [kind |-> "segv", pos |-> 0, junk |-> <<>>]

\* the while (curr < end) loop that fills all_labels
RECURSIVE UnpackFrom(_, _, _, _)
UnpackFrom(buf, curr, labels, oob) ==
  IF curr > Len(buf) THEN [err |-> "none", labels |-> labels]
  ELSE LET tab == StrChr(buf, curr, oob)
       IN  IF tab.kind = "segv" THEN [err |-> "segv", labels |-> labels]
           ELSE IF tab.kind = "null" THEN [err |-> "no_tab", labels |-> labels]
           ELSE IF tab.pos = curr THEN [err |-> "empty_label", labels |-> labels]
           ELSE LET last  == IF tab.pos - 1 <= Len(buf) THEN tab.pos - 1 ELSE Len(buf)
                    label == SubSeq(buf, curr, last) \o tab.junk
                IN  UnpackFrom(buf, tab.pos + 1, Append(labels, label), oob)

\* an insertion loop that inserts nothing
InsertDecodedNone(S, labels, codes, i) == [err |-> "none", set |-> S]

\* the loop that inserts Decode(all_labels[i], all_codes[i]), from index i on
RECURSIVE InsertDecoded(_, _, _, _)
InsertDecoded(S, labels, codes, i) ==
  IF i > Len(labels) THEN [err |-> "none", set |-> S]
  ELSE LET ins == SetInsert(S, Decode(labels[i], codes[i]))
       IN  IF ins.fails THEN [err |-> "lengths", set |-> S]
           ELSE InsertDecoded(ins.set, labels, codes, i + 1)

\* unpack labels, compare the sizes, make the list of all unique variables
UnpackAndInsert(S, buf, codes, oob) ==
  LET un == UnpackFrom(buf, 1, <<>>, oob)
  IN  IF un.err # "none" THEN [err |-> un.err, set |-> S, labels |-> un.labels]
      ELSE IF Len(un.labels) # Len(codes)
      THEN [err |-> "sizes", set |-> S, labels |-> un.labels]
      ELSE LET ins == InsertDecoded(S, un.labels, codes, 1)
           IN  [err |-> ins.err, set |-> ins.set, labels |-> un.labels]

(***************************************************************************)
(* Packing one variable of all_unique_vars for the local blocks.           *)
(***************************************************************************)
\* the index ranges written (first_block.cellbounds.GetBounds*(theDomain))
out_ib == [s |-> 0, e |-> nx1 - 1]
out_jb == [s |-> 0, e |-> nx2 - 1]
out_kb == [s |-> 0, e |-> nx3 - 1]

\* const hsize_t varSize = nx3 * nx2 * nx1
varSize == nx3 * nx2 * nx1

\* vlen_max: the largest component count of all_unique_vars
RECURSIVE VlenMax(_)
VlenMax(S) ==
  IF S = <<>> THEN 0
  ELSE LET m == VlenMax(Tail(S)) IN IF Head(S).vlen > m THEN Head(S).vlen ELSE m

\* v_h(l, k, j, i) of variable v: the block's data, never 0 in the model;
\* static_cast<OutT> leaves these small integers as they are
CellValue(v, l, k, j, i) == 1 + l + 10 * i + 100 * j + 1000 * k

\* a memset that clears nothing
MemsetNothing(buf, from, n) == buf

\* memset(buf.data() + from, 0, n * sizeof(OutT))
Memset(buf, from, n) ==
  [p \in 1..Len(buf) |-> IF p > from /\ p <= from + n THEN 0 ELSE buf[p]]

\* the loops over k, j, i, l that copy one variable of one block: the values
\* in the order tmpData[index++] receives them
LoopL(v, vlen, k, j, i) == [l1 \in 1..vlen |-> CellValue(v, l1 - 1, k, j, i)]

RECURSIVE LoopI(_, _, _, _, _)
LoopI(v, vlen, k, j, i) ==
  IF i > out_ib.e THEN <<>> ELSE LoopL(v, vlen, k, j, i) \o LoopI(v, vlen, k, j, i + 1)

RECURSIVE LoopJ(_, _, _, _)
LoopJ(v, vlen, k, j) ==
  IF j > out_jb.e THEN <<>> ELSE LoopI(v, vlen, k, j, out_ib.s) \o LoopJ(v, vlen, k, j + 1)

RECURSIVE LoopK(_, _, _)
LoopK(v, vlen, k) ==
  IF k > out_kb.e THEN <<>> ELSE LoopJ(v, vlen, k, out_jb.s) \o LoopK(v, vlen, k + 1)

\* a scan that stops after the first variable of the block
FoundFirstOnly(block, var_name) == block # <<>> /\ block[1].label = var_name

\* the scan of ci.vars of one block for var_name
Found(block, var_name) == \E j \in 1..Len(block) : block[j].label = var_name

\* the first variable of the block with this label (the scan breaks there)
FirstFound(block, var_name) ==
  block[CHOOSE j \in 1..Len(block) :
          /\ block[j].label = var_name
          /\ \A j2 \in 1..(j - 1) : block[j2].label # var_name]

\* sparse_field_idx.at(label): the position of label in sparse_names, from 0
SparseFieldIdx(names, label) ==
  (CHOOSE i \in 1..Len(names) : names[i] = label) - 1

\* the index that forgets the column of the variable
SparseSlotRow(b_idx, num_sparse, sparse_idx) == b_idx * num_sparse

\* b_idx * num_sparse + sparse_idx
SparseSlot(b_idx, num_sparse, sparse_idx) == b_idx * num_sparse + sparse_idx

\* a missing variable that is never an error
MissingNeverFatal(vinfo) == FALSE

\* if (!found): a variable that is not sparse is the fatal error
MissingIsFatal(vinfo) == ~vinfo.is_sparse

\* sparse_expanded[slot] = found, and the count of the assignments to the slot
AssignExpanded(st, slot, found) ==
  [st EXCEPT !.expanded[slot + 1] = IF found THEN "true" ELSE "false",
             !.assigned[slot + 1] = @ + 1]

\* a loop body that leaves the index where it is for a block without the variable
PackBlockNoSkip(blocks, b_idx, vinfo, names, st) ==
  LET block == blocks[b_idx + 1]
      found == Found(block, vinfo.label)
      data  == LoopK(FirstFound(block, vinfo.label), vinfo.vlen, out_kb.s)
      st1   == IF found
               THEN [st EXCEPT !.tmpData = Overwrite(@, st.index, data),
                               !.index = @ + Len(data)]
               ELSE st
      st2   == IF vinfo.is_sparse
               THEN AssignExpanded(st1, SparseSlot(b_idx, Len(names),
                                                   SparseFieldIdx(names, vinfo.label)),
                                   found)
               ELSE st1
  IN  IF found THEN [st2 EXCEPT !.found_any = TRUE]
      ELSE IF ~MissingIsFatal(vinfo)
      THEN [st2 EXCEPT !.tmpData = Memset(@, st2.index, varSize * vinfo.vlen)]
      ELSE [st2 EXCEPT !.fails = TRUE]

\* the body of the loop over the local mesh blocks for block b_idx (from 0);
\* st holds tmpData, index, found_any, sparse_expanded and the fatal error
PackBlock(blocks, b_idx, vinfo, names, st) ==
  LET block == blocks[b_idx + 1]
      found == Found(block, vinfo.label)
      data  == LoopK(FirstFound(block, vinfo.label), vinfo.vlen, out_kb.s)
      st1   == IF found
               THEN [st EXCEPT !.tmpData = Overwrite(@, st.index, data),
                               !.index = @ + Len(data)]
               ELSE st
      st2   == IF vinfo.is_sparse
               THEN AssignExpanded(st1, SparseSlot(b_idx, Len(names),
                                                   SparseFieldIdx(names, vinfo.label)),
                                   found)
               ELSE st1
  IN  IF found THEN [st2 EXCEPT !.found_any = TRUE]
      ELSE IF ~MissingIsFatal(vinfo)
      THEN [st2 EXCEPT !.tmpData = Memset(@, st2.index, varSize * vinfo.vlen),
                       !.index = @ + varSize * vinfo.vlen]
      ELSE [st2 EXCEPT !.fails = TRUE]

\* for each local mesh block, until the fatal error
RECURSIVE PackBlocks(_, _, _, _, _)
PackBlocks(blocks, b_idx, vinfo, names, st) ==
  IF b_idx >= Len(blocks) \/ st.fails THEN st
  ELSE PackBlocks(blocks, b_idx + 1, vinfo, names,
                  PackBlock(blocks, b_idx, vinfo, names, st))

\* one pass of the loop "for each variable we write" up to the write: the
\* memset of tmpData, then the loop over the local mesh blocks
PackVar(blocks, vinfo, names, tmp, expanded, assigned) ==
  PackBlocks(blocks, 0, vinfo, names,
             [tmpData   |-> Memset(tmp, 0, Len(tmp)),
              index     |-> 0,
              found_any |-> FALSE,
              fails     |-> FALSE,
              expanded  |-> expanded,
              assigned  |-> assigned])

(***************************************************************************)
(* State.                                                                  *)
(***************************************************************************)
VARIABLES
  nranks,            \* Globals::nranks
  block_list,        \* per rank: pm->block_list, each block being its ci.vars
  pc,                \* per rank: where WriteOutputFileImpl is
  err,               \* per rank: the fatal error raised, or "none"
  all_unique_vars,   \* per rank: the std::set<VarInfo>
  label_buffer,      \* per rank
  code_buffer,       \* per rank
  buffer_lengths,    \* per rank
  all_labels_buffer, \* per rank
  all_codes,         \* per rank
  all_labels,        \* per rank: the unpacked labels
  sparse_names,      \* per rank
  var_idx,           \* per rank: position of the variable loop in all_unique_vars
  coll,              \* per rank: the collective calls entered so far, in order
  restart_,          \* PHDF5Output::restart_ : the event writes a restart file
  files,             \* per rank: the names of the files created, one per event
  groups,            \* per rank: the groups made in the file of the event, in order
  local_offset,      \* per rank
  local_count,       \* per rank
  global_count,      \* per rank
  tmpData,           \* per rank: the staging buffer
  sparse_expanded,   \* per rank: "true", "false" or, not yet assigned, "uninit"
  sparse_assigned,   \* per rank: how often each entry of sparse_expanded was assigned
  written,           \* per rank: the dataset writes issued, in order
  sparse_fields,     \* per rank: the SparseFields attributes written
  xdmf,              \* per rank: the companion files generated
  output_params,     \* per rank: file_number, next_time, dt
  pin,               \* per rank: the output block of the run configuration
  bvals,             \* one call of the boundary dispatcher or of a boundary function
  codec,             \* one descriptor on its way through constructor, encode, decode
  mesh,              \* the blocks of a logical mesh, in global block order
  outcome,           \* per rank count: the results of reconciling mesh on that many ranks
  descriptor,        \* a StateDescriptor, its maps of metadata and a call of AddField
  vtk                \* VTKOutput::WriteContainer on the data of one block

vars == <<nranks, block_list, pc, err, all_unique_vars, label_buffer, code_buffer,
          buffer_lengths, all_labels_buffer, all_codes, all_labels, sparse_names,
          var_idx, coll, restart_, files, groups, local_offset, local_count,
          global_count,
          tmpData, sparse_expanded, sparse_assigned, written, sparse_fields, xdmf,
          output_params, pin, bvals, codec, mesh, outcome, descriptor, vtk>>

\* the hyperslab of the rank
shape == <<local_offset, local_count, global_count>>

\* the staging buffer and the sparse allocation map
staging == <<tmpData, sparse_expanded, sparse_assigned>>

\* what the rank has put into files
output == <<files, groups, written, sparse_fields, xdmf>>

\* the output parameters and their copy in the run configuration
params == <<output_params, pin>>

\* the state of the writer
writer == <<restart_, shape, staging, output, params>>

\* the state of one output event
event == <<nranks, block_list, pc, err, all_unique_vars, label_buffer, code_buffer,
           buffer_lengths, all_labels_buffer, all_codes, all_labels, sparse_names,
           var_idx, coll, writer>>

\* the state of the checks of the pure functions and of the boundary dispatcher
aux == <<codec, mesh, outcome, bvals, descriptor, vtk>>

Ranks == 0..(nranks - 1)

(***************************************************************************)
(* The variables a block can hold (CellVariable: label, GetDim(4),         *)
(* IsSparse, Vector flag) and the blocks of the model.                     *)
(***************************************************************************)
aS1  == [label |-> <<97>>, dim4 |-> 1, sparse |-> TRUE,  vector |-> FALSE]
aD1V == [label |-> <<97>>, dim4 |-> 1, sparse |-> FALSE, vector |-> TRUE]
aS2  == [label |-> <<97>>, dim4 |-> 2, sparse |-> TRUE,  vector |-> FALSE]
bD2  == [label |-> <<98>>, dim4 |-> 2, sparse |-> FALSE, vector |-> FALSE]
cD1  == [label |-> <<99>>, dim4 |-> 1, sparse |-> FALSE, vector |-> FALSE]
cBig == [label |-> <<99>>, dim4 |-> max_vlen + 1, sparse |-> FALSE, vector |-> FALSE]
cNil == [label |-> <<99>>, dim4 |-> 0, sparse |-> TRUE, vector |-> FALSE]
abS1 == [label |-> <<97, 98>>, dim4 |-> 1, sparse |-> TRUE, vector |-> FALSE]
zS1  == [label |-> <<97, NUL>>, dim4 |-> 1, sparse |-> TRUE, vector |-> FALSE]

BlockKinds ==
  {<<bD2, aS1>>, <<cD1>>, <<bD2, abS1>>, <<aD1V, bD2>>, <<aS2, bD2>>,
   <<bD2, cBig>>, <<cNil>>, <<zS1, bD2>>}

\* the ways to give nr ranks at least one block each, budget blocks at most
RECURSIVE Distributions(_, _)
Distributions(nr, budget) ==
  IF nr = 0 THEN {<<>>}
  ELSE UNION {{<<s>> \o d : s \in [1..k -> BlockKinds],
                            d \in Distributions(nr - 1, budget - k)}
              : k \in 1..(budget - (nr - 1))}

PerRank(v) == [r \in Ranks |-> v]

\* the writer before the event, for output parameters op
InitWriter(op) ==
  /\ files = PerRank(<<>>)
  /\ groups = PerRank(<<>>)
  /\ local_offset = PerRank(<<>>)
  /\ local_count = PerRank(<<>>)
  /\ global_count = PerRank(<<>>)
  /\ tmpData = PerRank(<<>>)
  /\ sparse_expanded = PerRank(<<>>)
  /\ sparse_assigned = PerRank(<<>>)
  /\ written = PerRank(<<>>)
  /\ sparse_fields = PerRank(<<>>)
  /\ xdmf = PerRank(<<>>)
  /\ output_params = PerRank(op)
  /\ pin = PerRank([file_number |-> op.file_number, next_time |-> op.next_time])

\* output parameters of a first output
FirstOutput == [file_number |-> 0, next_time |-> 0, dt |-> 1]

\* the kinds of block that hold a descriptor no rank can pack or unpack
MalformedKinds == {<<bD2, cBig>>, <<cNil>>, <<zS1, bD2>>}

\* the blocks of such a kind in a distribution
MalformedBlocks(d) ==
  {qb \in (1..Len(d)) \X (1..MaxNbTotal) :
     qb[2] <= Len(d[qb[1]]) /\ d[qb[1]][qb[2]] \in MalformedKinds}

\* an output event of a run in which one block at most is of such a kind
Init ==
  /\ nranks \in 1..MaxRanks
  /\ \E d \in Distributions(nranks, MaxNbTotal) :
       /\ Cardinality(MalformedBlocks(d)) <= 1
       /\ block_list = [r \in Ranks |-> d[r + 1]]
  /\ pc = PerRank("start")
  /\ err = PerRank("none")
  /\ all_unique_vars = PerRank(<<>>)
  /\ label_buffer = PerRank(<<>>)
  /\ code_buffer = PerRank(<<>>)
  /\ buffer_lengths = PerRank(<<>>)
  /\ all_labels_buffer = PerRank(<<>>)
  /\ all_codes = PerRank(<<>>)
  /\ all_labels = PerRank(<<>>)
  /\ sparse_names = PerRank(<<>>)
  /\ var_idx = PerRank(0)
  /\ coll = PerRank(<<>>)
  /\ restart_ = FALSE
  /\ InitWriter(FirstOutput)
  /\ bvals = [stage |-> "idle"]
  /\ codec = [stage |-> "idle"]
  /\ mesh = <<>>
  /\ outcome = <<>>
  /\ descriptor = [stage |-> "idle"]
  /\ vtk = [stage |-> "idle"]

(***************************************************************************)
(* Collective calls.  A rank that has entered its k-th collective call     *)
(* leaves it once every rank has entered its own k-th collective call.     *)
(***************************************************************************)
Arrived(r) == \A q \in Ranks : Len(coll[q]) >= Len(coll[r])

\* what rank q contributed to the collective call rank r is in
Sent(r) == [q \in Ranks |-> coll[q][Len(coll[r])].data]

\* a rank with nothing to send leaves the gather out
EnterIfAny(r, op, data) ==
  coll' = [coll EXCEPT ![r] = IF op = "Allgatherv" /\ data = <<>> THEN @
                                ELSE Append(@, [op |-> op, data |-> data])]

\* rank r enters a collective call
Enter(r, op, data) == coll' = [coll EXCEPT ![r] = Append(@, [op |-> op, data |-> data])]

\* an error that is recorded while the rank goes on to the end of the event
FailAndGoOn(r, e) ==
  /\ pc' = [pc EXCEPT ![r] = "wait_sparse"]
  /\ err' = [err EXCEPT ![r] = e]

\* PARTHENON_FAIL / PARTHENON_THROW: the rank leaves the function
Fail(r, e) ==
  /\ pc' = [pc EXCEPT ![r] = "failed"]
  /\ err' = [err EXCEPT ![r] = e]

(***************************************************************************)
(* The file name, the hyperslab and the datasets written before the        *)
(* variables.                                                              *)
(***************************************************************************)
\* the decimal digits of n >= 0, as bytes
RECURSIVE Digits(_)
Digits(n) == IF n < 10 THEN <<48 + n>> ELSE Digits(n \div 10) \o <<48 + (n % 10)>>

\* file_number << std::setw(5) << std::setfill('0') << n : the text of n,
\* right-adjusted in a field of 5 and padded with '0' on the left
FileNumberStr(n) ==
  LET txt == IF n < 0 THEN <<45>> \o Digits(0 - n) ELSE Digits(n)
  IN  [i \in 1..(IF Len(txt) < 5 THEN 5 - Len(txt) ELSE 0) |-> 48] \o txt

\* file_basename.file_id.NNNNN.rhdf / .phdf ; basename and id do not change
FileName(op, restart) ==
  [number |-> FileNumberStr(op.file_number),
   ext    |-> IF restart THEN "rhdf" ELSE "phdf"]

\* pm->ndim of a mesh whose blocks have these cells
ndim == IF nx3 > 1 THEN 3 ELSE IF nx2 > 1 THEN 2 ELSE 1

\* pm->GetNbList() and pm->nbtotal: the block counts of the ranks and their sum
nblist == [q \in Ranks |-> Len(block_list[q])]

RECURSIVE SumTo(_, _)
SumTo(f, n) == IF n = 0 THEN 0 ELSE SumTo(f, n - 1) + f[n - 1]

nbtotal == SumTo(nblist, nranks)

\* a local count one block too large
NumBlocksLocalPlus(blocks) == Len(blocks) + 1

\* num_blocks_local = pm->block_list.size()
NumBlocksLocal(blocks) == Len(blocks)

\* the loop that also adds the count of the rank itself
MyOffsetInclusive(nbl, my_rank) == SumTo(nbl, my_rank + 1)

\* my_offset: the sum of nblist[i] for i < my_rank
MyOffset(nbl, my_rank) == SumTo(nbl, my_rank)

\* the chunk of the dataset creation property list pl_dcreate
chunk_size == <<1, nx3, nx2, nx1, 1>>

\* one call of HDF5Write2D / HDF5WriteND as the file sees it; HDF5WriteND
\* alone is given pl_dcreate
WriteCall(kind, name, off, lc, gc, data) ==
  [kind |-> kind, name |-> name, offset |-> off, count |-> lc, global |-> gc,
   data |-> data, chunk |-> IF kind = "variable" THEN chunk_size ELSE <<>>]

\* local_count / global_count with entry 1 set to n
WithCount1(cnt, n) == [cnt EXCEPT ![2] = n]

\* a count whose last entry is left at one component
WithCount4Single(cnt, vlen) == [cnt EXCEPT ![5] = 1]

\* local_count[4] = global_count[4] = vlen
WithCount4(cnt, vlen) == [cnt EXCEPT ![5] = vlen]

\* the Blocks datasets of a restart file or the Locations datasets of the
\* others, each with its own local_count[1] = global_count[1]; the
\* coordinates and ids they hold are left out
MetadataWrites(restart, nd, off, lc, gc) ==
  IF restart
  THEN <<WriteCall("blocks", "xmin", off, WithCount1(lc, nd), WithCount1(gc, nd), <<>>),
         WriteCall("blocks", "loc.lx123", off, WithCount1(lc, 3), WithCount1(gc, 3), <<>>),
         WriteCall("blocks", "loc.level-gid-lid-cnghost-gflag", off,
                   WithCount1(lc, 5), WithCount1(gc, 5), <<>>)>>
  ELSE <<WriteCall("locations", "x", off, WithCount1(lc, nx1 + 1), WithCount1(gc, nx1 + 1), <<>>),
         WriteCall("locations", "y", off, WithCount1(lc, nx2 + 1), WithCount1(gc, nx2 + 1), <<>>),
         WriteCall("locations", "z", off, WithCount1(lc, nx3 + 1), WithCount1(gc, nx3 + 1), <<>>)>>

\* groups that do not depend on the kind of the output
MakeGroupsOfBothKinds(restart) == <<"/Input", "/Info", "/Mesh", "/Blocks", "/Locations">>

\* the calls of MakeGroup in their order: /Input, /Mesh and /Blocks under
\* if (restart_), /Locations under if (!restart_), /Info always
MakeGroups(restart) ==
  (IF restart THEN <<"/Input">> ELSE <<>>) \o <<"/Info">>
    \o (IF restart THEN <<"/Mesh">> ELSE <<>>)
    \o (IF restart THEN <<"/Blocks">> ELSE <<>>)
    \o (IF ~restart THEN <<"/Locations">> ELSE <<>>)

\* std::string::c_str() read as a C string: the bytes before the first NUL
RECURSIVE CStr(_)
CStr(str) ==
  IF str = <<>> \/ Head(str) = NUL THEN <<>> ELSE <<Head(str)>> \o CStr(Tail(str))

\* the elements cnt[1] * ... * cnt[n] a write of n dimensions reads
RECURSIVE Extent(_, _)
Extent(cnt, n) == IF n = 0 THEN 1 ELSE Extent(cnt, n - 1) * cnt[n]

\* the values a write reads from sparse_expanded: an entry never assigned
\* holds whatever the allocation left there
Expanded(se, junk) == [i \in 1..Len(se) |-> IF se[i] = "uninit" THEN junk ELSE se[i]]

JunkFor(se) ==
  IF \E i \in 1..Len(se) : se[i] = "uninit" THEN {"true", "false"} ELSE {"false"}

(***************************************************************************)
(* Steps of WriteOutputFileImpl on rank r.                                 *)
(***************************************************************************)
\* the file is created, the hyperslab is set and the Blocks or Locations
\* datasets are written; then the local list of unique vars, label_buffer,
\* code_buffer, buffer_lengths and the entry into MPI_Allgather
BuildLocalVars(r) ==
  /\ pc[r] = "start"
  /\ \E off \in {<<MyOffset(nblist, r), 0, 0, 0, 0>>} :
     \E lc \in {<<NumBlocksLocal(block_list[r]), 1, 1, 1, 1>>} :
     \E gc \in {<<nbtotal, 1, 1, 1, 1>>} :
     \E meta \in {MetadataWrites(restart_, ndim, off, lc, gc)} :
         /\ files' = [files EXCEPT ![r] = Append(@, FileName(output_params[r], restart_))]
         /\ groups' = [groups EXCEPT ![r] = MakeGroups(restart_)]
         /\ local_offset' = [local_offset EXCEPT ![r] = off]
         /\ local_count' = [local_count EXCEPT ![r] = meta[3].count]
         /\ global_count' = [global_count EXCEPT ![r] = meta[3].global]
         /\ written' = [written EXCEPT ![r] = @ \o meta]
  /\ \E res \in {InsertVars(<<>>, Flatten(block_list[r]))} :
     \E lb \in {LabelBuffer(res.set)} :
     \E cb \in {CodeBuffer(res.set)} :
         /\ all_unique_vars' = [all_unique_vars EXCEPT ![r] = res.set]
         /\ IF res.err # "none"
            THEN /\ Fail(r, res.err)
                 /\ UNCHANGED <<label_buffer, code_buffer, buffer_lengths, coll>>
            ELSE /\ label_buffer' = [label_buffer EXCEPT ![r] = lb]
                 /\ code_buffer' = [code_buffer EXCEPT ![r] = cb]
                 /\ buffer_lengths' = [buffer_lengths EXCEPT ![r] =
                      [i \in 1..(2 * nranks) |->
                         IF i = 2 * r + 1 THEN Len(lb)
                         ELSE IF i = 2 * r + 2 THEN Len(cb) ELSE 0]]
                 /\ Enter(r, "Allgather", <<Len(lb), Len(cb)>>)
                 /\ pc' = [pc EXCEPT ![r] = "wait_lengths"]
                 /\ UNCHANGED err
  /\ UNCHANGED aux
  /\ UNCHANGED <<nranks, block_list, all_labels_buffer, all_codes, all_labels,
                 sparse_names, var_idx>>
  /\ UNCHANGED <<restart_, staging, sparse_fields, xdmf, params>>

\* MPI_Allgather returns; offsets, result buffers, the two memcpy and the entry
\* into the MPI_Allgatherv of the labels
AllgatherLengths(r) ==
  /\ pc[r] = "wait_lengths"
  /\ Arrived(r)
  /\ LET bl   == [i \in 1..(2 * nranks) |-> Sent(r)[(i - 1) \div 2][((i - 1) % 2) + 1]]
         ll   == LabelLengths(bl, nranks)
         cl   == CodeLengths(bl, nranks)
         alb  == OwnPart(Offsets(ll, nranks), NUL, label_buffer[r], Offsets(ll, r))
         ac   == OwnPart(Offsets(cl, nranks), 0, code_buffer[r], Offsets(cl, r))
     IN  /\ buffer_lengths' = [buffer_lengths EXCEPT ![r] = bl]
         /\ all_labels_buffer' = [all_labels_buffer EXCEPT ![r] = alb]
         /\ all_codes' = [all_codes EXCEPT ![r] = ac]
         /\ Enter(r, "Allgatherv", SubSeq(alb, Offsets(ll, r) + 1, Offsets(ll, r) + ll[r]))
  /\ pc' = [pc EXCEPT ![r] = "wait_labels"]
  /\ UNCHANGED aux
  /\ UNCHANGED <<nranks, block_list, err, all_unique_vars, label_buffer, code_buffer,
                 all_labels, sparse_names, var_idx, writer>>

\* MPI_Allgatherv of the labels returns; entry into the one of the codes
AllgathervLabels(r) ==
  /\ pc[r] = "wait_labels"
  /\ Arrived(r)
  /\ LET ll == LabelLengths(buffer_lengths[r], nranks)
         cl == CodeLengths(buffer_lengths[r], nranks)
     IN  /\ all_labels_buffer' = [all_labels_buffer EXCEPT ![r] =
                                    Allgatherv(@, Sent(r), ll, nranks)]
         /\ Enter(r, "Allgatherv",
                  SubSeq(all_codes[r], Offsets(cl, r) + 1, Offsets(cl, r) + cl[r]))
  /\ pc' = [pc EXCEPT ![r] = "wait_codes"]
  /\ UNCHANGED aux
  /\ UNCHANGED <<nranks, block_list, err, all_unique_vars, label_buffer, code_buffer,
                 buffer_lengths, all_codes, all_labels, sparse_names, var_idx, writer>>

\* MPI_Allgatherv of the codes returns
AllgathervCodes(r) ==
  /\ pc[r] = "wait_codes"
  /\ Arrived(r)
  /\ all_codes' = [all_codes EXCEPT ![r] =
       Allgatherv(@, Sent(r), CodeLengths(buffer_lengths[r], nranks), nranks)]
  /\ pc' = [pc EXCEPT ![r] = "unpack"]
  /\ UNCHANGED aux
  /\ UNCHANGED <<nranks, block_list, err, all_unique_vars, label_buffer, code_buffer,
                 buffer_lengths, all_labels_buffer, all_labels, sparse_names, var_idx,
                 coll, writer>>

\* a list of names that holds every variable of the set
SparseNamesAll(S) == [i \in 1..Len(S) |-> S[i].label]

\* sparse_names: the labels of the sparse variables, in the order of the set
RECURSIVE SparseNames(_)
SparseNames(S) ==
  IF S = <<>> THEN <<>>
  ELSE (IF Head(S).is_sparse THEN <<Head(S).label>> ELSE <<>>) \o SparseNames(Tail(S))

\* unpack labels, check the sizes, make the list of all unique variables; then
\* sparse_names, sparse_field_idx, sparse_expanded (new hbool_t[], not
\* initialised), tmpData (a std::vector, zero) and the counts of the cells
UnpackLabels(r) ==
  /\ pc[r] = "unpack"
  /\ \E oob \in OobFor(all_labels_buffer[r]) :
     \E res \in {UnpackAndInsert(all_unique_vars[r], all_labels_buffer[r], all_codes[r], oob)} :
     \E names \in {SparseNames(res.set)} :
     \E nbl \in {NumBlocksLocal(block_list[r])} :
           /\ all_labels' = [all_labels EXCEPT ![r] = res.labels]
           /\ all_unique_vars' = [all_unique_vars EXCEPT ![r] = res.set]
           /\ IF res.err # "none"
              THEN /\ Fail(r, res.err)
                   /\ UNCHANGED <<sparse_names, var_idx, shape, staging>>
              ELSE /\ sparse_names' = [sparse_names EXCEPT ![r] = names]
                   /\ sparse_expanded' = [sparse_expanded EXCEPT ![r] =
                        [i \in 1..(nbl * Len(names)) |-> "uninit"]]
                   /\ sparse_assigned' = [sparse_assigned EXCEPT ![r] =
                        [i \in 1..(nbl * Len(names)) |-> 0]]
                   /\ tmpData' = [tmpData EXCEPT ![r] =
                        [i \in 1..(varSize * VlenMax(res.set) * nbl) |-> 0]]
                   /\ local_count' = [local_count EXCEPT ![r] =
                        [@ EXCEPT ![2] = nx3, ![3] = nx2, ![4] = nx1]]
                   /\ global_count' = [global_count EXCEPT ![r] =
                        [@ EXCEPT ![2] = nx3, ![3] = nx2, ![4] = nx1]]
                   /\ var_idx' = [var_idx EXCEPT ![r] = 1]
                   /\ pc' = [pc EXCEPT ![r] = "vars"]
                   /\ UNCHANGED <<err, local_offset>>
  /\ UNCHANGED aux
  /\ UNCHANGED <<nranks, block_list, label_buffer, code_buffer, buffer_lengths,
                 all_labels_buffer, all_codes, coll>>
  /\ UNCHANGED <<restart_, output, params>>

\* one pass of the loop "for each variable we write": load up the data of the
\* local blocks, then HDF5WriteND if found_any
WriteVariable(r) ==
  /\ pc[r] = "vars"
  /\ var_idx[r] <= Len(all_unique_vars[r])
  /\ \E vinfo \in {all_unique_vars[r][var_idx[r]]} :
     \E pk \in {PackVar(block_list[r], vinfo, sparse_names[r], tmpData[r],
                        sparse_expanded[r], sparse_assigned[r])} :
     \E lc \in {WithCount4(local_count[r], vinfo.vlen)} :
     \E gc \in {WithCount4(global_count[r], vinfo.vlen)} :
         /\ local_count' = [local_count EXCEPT ![r] = lc]
         /\ global_count' = [global_count EXCEPT ![r] = gc]
         /\ tmpData' = [tmpData EXCEPT ![r] = pk.tmpData]
         /\ sparse_expanded' = [sparse_expanded EXCEPT ![r] = pk.expanded]
         /\ sparse_assigned' = [sparse_assigned EXCEPT ![r] = pk.assigned]
         /\ IF pk.fails
            THEN Fail(r, "dense") /\ UNCHANGED <<var_idx, coll, written>>
            ELSE IF pk.found_any
            THEN /\ Enter(r, "HDF5WriteND", vinfo.label)
                 /\ written' = [written EXCEPT ![r] = Append(@,
                      WriteCall("variable", vinfo.label, local_offset[r], lc, gc,
                                SubSeq(pk.tmpData, 1, Extent(lc, 5))))]
                 /\ pc' = [pc EXCEPT ![r] = "wait_write"]
                 /\ UNCHANGED <<err, var_idx>>
            ELSE /\ var_idx' = [var_idx EXCEPT ![r] = @ + 1]
                 /\ UNCHANGED <<pc, err, coll, written>>
  /\ UNCHANGED aux
  /\ UNCHANGED <<nranks, block_list, all_unique_vars, label_buffer, code_buffer,
                 buffer_lengths, all_labels_buffer, all_codes, all_labels, sparse_names>>
  /\ UNCHANGED <<restart_, local_offset, files, groups, sparse_fields, xdmf, params>>

\* the collective HDF5WriteND returns
WriteVariableDone(r) ==
  /\ pc[r] = "wait_write"
  /\ Arrived(r)
  /\ var_idx' = [var_idx EXCEPT ![r] = @ + 1]
  /\ pc' = [pc EXCEPT ![r] = "vars"]
  /\ UNCHANGED aux
  /\ UNCHANGED <<nranks, block_list, err, all_unique_vars, label_buffer, code_buffer,
                 buffer_lengths, all_labels_buffer, all_codes, all_labels, sparse_names,
                 coll, writer>>

\* write SparseInfo: the entry into the collective HDF5Write2D
WriteSparseInfo(r) ==
  /\ pc[r] = "vars"
  /\ var_idx[r] > Len(all_unique_vars[r])
  /\ \E lc \in {WithCount1(local_count[r], Len(sparse_names[r]))} :
     \E gc \in {WithCount1(global_count[r], Len(sparse_names[r]))} :
     \E junk \in JunkFor(sparse_expanded[r]) :
         /\ local_count' = [local_count EXCEPT ![r] = lc]
         /\ global_count' = [global_count EXCEPT ![r] = gc]
         /\ written' = [written EXCEPT ![r] = Append(@,
              WriteCall("sparse", "SparseInfo", local_offset[r], lc, gc,
                        SubSeq(Expanded(sparse_expanded[r], junk), 1, Extent(lc, 2))))]
  /\ Enter(r, "HDF5Write2D", <<>>)
  /\ pc' = [pc EXCEPT ![r] = "wait_sparse"]
  /\ UNCHANGED aux
  /\ UNCHANGED <<nranks, block_list, err, all_unique_vars, label_buffer, code_buffer,
                 buffer_lengths, all_labels_buffer, all_codes, all_labels, sparse_names,
                 var_idx>>
  /\ UNCHANGED <<restart_, local_offset, staging, files, groups, sparse_fields, xdmf,
                 params>>

\* a genXDMF that writes on every rank
genXDMFAnyRank(my_rank, hdfFile, made) == Append(made, hdfFile)

\* genXDMF: only rank 0 writes XDMF
genXDMF(my_rank, hdfFile, made) == IF my_rank # 0 THEN made ELSE Append(made, hdfFile)

\* an advance that leaves the file number alone
AdvanceTimeOnly(op) == [op EXCEPT !.next_time = @ + op.dt]

\* output_params.file_number++; output_params.next_time += output_params.dt
Advance(op) == [op EXCEPT !.file_number = @ + 1, !.next_time = @ + op.dt]

\* the collective write of SparseInfo returns; the attribute SparseFields,
\* the XDMF companion file, and the output parameters advance
WriteSparseInfoDone(r) ==
  /\ pc[r] = "wait_sparse"
  /\ Arrived(r)
  /\ sparse_fields' = [sparse_fields EXCEPT ![r] =
       Append(@, [i \in 1..Len(sparse_names[r]) |-> CStr(sparse_names[r][i])])]
  /\ xdmf' = [xdmf EXCEPT ![r] =
       IF restart_ THEN @ ELSE genXDMF(r, files[r][Len(files[r])], @)]
  /\ \E op \in {Advance(output_params[r])} :
       /\ output_params' = [output_params EXCEPT ![r] = op]
       /\ pin' = [pin EXCEPT ![r] = [file_number |-> op.file_number,
                                     next_time   |-> op.next_time]]
  /\ pc' = [pc EXCEPT ![r] = "done"]
  /\ UNCHANGED aux
  /\ UNCHANGED <<nranks, block_list, err, all_unique_vars, label_buffer, code_buffer,
                 buffer_lengths, all_labels_buffer, all_codes, all_labels, sparse_names,
                 var_idx, coll>>
  /\ UNCHANGED <<restart_, shape, staging, files, groups, written>>

Next ==
  \E r \in Ranks :
    \/ BuildLocalVars(r)
    \/ AllgatherLengths(r)
    \/ AllgathervLabels(r)
    \/ AllgathervCodes(r)
    \/ UnpackLabels(r)
    \/ WriteVariable(r)
    \/ WriteVariableDone(r)
    \/ WriteSparseInfo(r)
    \/ WriteSparseInfoDone(r)

Spec == Init /\ [][Next]_vars

(***************************************************************************)
(* Output events of both kinds, restart files and graphics files, on       *)
(* blocks whose variables are all well-formed.                             *)
(***************************************************************************)
WellFormedKinds == {<<bD2, aS1>>, <<cD1>>, <<bD2, abS1>>}

InitRestart ==
  /\ nranks \in 1..MaxRanks
  /\ \E d \in Distributions(nranks, MaxNbTotal) :
       /\ \A q \in 1..nranks : \A b \in 1..Len(d[q]) : d[q][b] \in WellFormedKinds
       /\ block_list = [r \in Ranks |-> d[r + 1]]
  /\ pc = PerRank("start")
  /\ err = PerRank("none")
  /\ all_unique_vars = PerRank(<<>>)
  /\ label_buffer = PerRank(<<>>)
  /\ code_buffer = PerRank(<<>>)
  /\ buffer_lengths = PerRank(<<>>)
  /\ all_labels_buffer = PerRank(<<>>)
  /\ all_codes = PerRank(<<>>)
  /\ all_labels = PerRank(<<>>)
  /\ sparse_names = PerRank(<<>>)
  /\ var_idx = PerRank(0)
  /\ coll = PerRank(<<>>)
  /\ restart_ \in BOOLEAN
  /\ InitWriter(FirstOutput)
  /\ bvals = [stage |-> "idle"]
  /\ codec = [stage |-> "idle"]
  /\ mesh = <<>>
  /\ outcome = <<>>
  /\ descriptor = [stage |-> "idle"]
  /\ vtk = [stage |-> "idle"]

SpecRestart == InitRestart /\ [][Next]_vars

(***************************************************************************)
(* The label parser on raw gathered buffers: one rank at "unpack labels"   *)
(* with any bytes in all_labels_buffer and any codes in all_codes.         *)
(***************************************************************************)
\* all sequences over S of length at most n
SeqsUpTo(S, n) == UNION {[1..k -> S] : k \in 0..n}

\* "alpha\tbeta\t" and "alpha\t\tbeta\t"
AlphaBeta == <<97, 108, 112, 104, 97, TAB, 98, 101, 116, 97, TAB>>
AlphaEmptyBeta == <<97, 108, 112, 104, 97, TAB, TAB, 98, 101, 116, 97, TAB>>

ParseBuffers == SeqsUpTo({97, 98, TAB, NUL}, MaxBufLen) \cup {AlphaBeta, AlphaEmptyBeta}
ParseCodes == SeqsUpTo({1, 2, 1 + sparse_flag}, MaxCodes)

InitParse ==
  /\ nranks = 1
  /\ block_list = PerRank(<<<<aS1>>>>)
  /\ pc = PerRank("unpack")
  /\ err = PerRank("none")
  /\ all_unique_vars = PerRank(<<VarInfo(aS1)>>)
  /\ label_buffer = PerRank(<<>>)
  /\ code_buffer = PerRank(<<>>)
  /\ buffer_lengths = PerRank(<<>>)
  /\ all_labels_buffer \in [Ranks -> ParseBuffers]
  /\ all_codes \in [Ranks -> ParseCodes]
  /\ all_labels = PerRank(<<>>)
  /\ sparse_names = PerRank(<<>>)
  /\ var_idx = PerRank(0)
  /\ coll = PerRank(<<>>)
  /\ restart_ = FALSE
  /\ InitWriter(FirstOutput)
  /\ bvals = [stage |-> "idle"]
  /\ codec = [stage |-> "idle"]
  /\ mesh = <<>>
  /\ outcome = <<>>
  /\ descriptor = [stage |-> "idle"]
  /\ vtk = [stage |-> "idle"]

NextParse == \E r \in Ranks : UnpackLabels(r)

SpecParse == InitParse /\ [][NextParse]_vars

(***************************************************************************)
(* One descriptor through the VarInfo constructor, get_info_code and       *)
(* Decode.                                                                 *)
(***************************************************************************)
\* component counts around 0, around max_vlen, and around the powers of two
VlenSamples ==
  ((0 - VlenWindow)..VlenWindow)
    \cup ((max_vlen - VlenWindow)..(max_vlen + VlenWindow))
    \cup UNION {{2 ^ k - 1, 2 ^ k} : k \in 1..15}

InitCodec ==
  /\ codec \in [stage : {"var"},
                var : [label : {<<97>>, <<97, 98>>}, dim4 : VlenSamples,
                       sparse : BOOLEAN, vector : BOOLEAN]]
  /\ nranks = 1
  /\ block_list = PerRank(<<>>)
  /\ pc = PerRank("idle")
  /\ err = PerRank("none")
  /\ all_unique_vars = PerRank(<<>>)
  /\ label_buffer = PerRank(<<>>)
  /\ code_buffer = PerRank(<<>>)
  /\ buffer_lengths = PerRank(<<>>)
  /\ all_labels_buffer = PerRank(<<>>)
  /\ all_codes = PerRank(<<>>)
  /\ all_labels = PerRank(<<>>)
  /\ sparse_names = PerRank(<<>>)
  /\ var_idx = PerRank(0)
  /\ coll = PerRank(<<>>)
  /\ restart_ = FALSE
  /\ InitWriter(FirstOutput)
  /\ bvals = [stage |-> "idle"]
  /\ mesh = <<>>
  /\ outcome = <<>>
  /\ descriptor = [stage |-> "idle"]
  /\ vtk = [stage |-> "idle"]

\* explicit VarInfo(var)
Construct ==
  /\ codec.stage = "var"
  /\ codec' = IF VarInfoFails(codec.var)
              THEN [stage |-> "failed", var |-> codec.var]
              ELSE [stage |-> "info", var |-> codec.var, vinfo |-> VarInfo(codec.var)]
  /\ UNCHANGED <<event, mesh, outcome, bvals, descriptor, vtk>>

\* get_info_code()
Encode ==
  /\ codec.stage = "info"
  /\ codec' = [stage |-> "code", var |-> codec.var, vinfo |-> codec.vinfo,
               code |-> get_info_code(codec.vinfo)]
  /\ UNCHANGED <<event, mesh, outcome, bvals, descriptor, vtk>>

\* VarInfo::Decode(label, code)
DecodeCode ==
  /\ codec.stage = "code"
  /\ codec' = [stage |-> "decoded", var |-> codec.var, vinfo |-> codec.vinfo,
               code |-> codec.code, decoded |-> Decode(codec.vinfo.label, codec.code)]
  /\ UNCHANGED <<event, mesh, outcome, bvals, descriptor, vtk>>

NextCodec == Construct \/ Encode \/ DecodeCode

SpecCodec == InitCodec /\ [][NextCodec]_vars

(***************************************************************************)
(* Reconciliation as a function of the blocks of the ranks, and one        *)
(* logical mesh reconciled on 1, 2 and 4 ranks.                            *)
(***************************************************************************)
\* the local list of unique vars of every rank: element q + 1 is rank q's
RECURSIVE LocalSetsOf(_)
LocalSetsOf(dist) ==
  IF dist = <<>> THEN <<>>
  ELSE <<InsertVars(<<>>, Flatten(Head(dist)))>> \o LocalSetsOf(Tail(dist))

\* label_buffer and code_buffer of every rank
RECURSIVE LabelBuffersOf(_)
LabelBuffersOf(loc) ==
  IF loc = <<>> THEN <<>>
  ELSE <<LabelBuffer(Head(loc).set)>> \o LabelBuffersOf(Tail(loc))

RECURSIVE CodeBuffersOf(_)
CodeBuffersOf(loc) ==
  IF loc = <<>> THEN <<>>
  ELSE <<CodeBuffer(Head(loc).set)>> \o CodeBuffersOf(Tail(loc))

\* all_labels_buffer and all_codes of rank r after the gathers, given the
\* buffers buf of all ranks (element q + 1 is rank q's) and the fill byte
Gathered(buf, fill, r) ==
  LET nr   == Len(buf)
      lens == [q \in 0..(nr - 1) |-> Len(buf[q + 1])]
  IN  Allgatherv(OwnPart(Offsets(lens, nr), fill, buf[r + 1], Offsets(lens, r)),
                 [q \in 0..(nr - 1) |-> buf[q + 1]], lens, nr)

\* what rank r holds after the local build, the gathers and the unpacking, given
\* the local sets loc and the buffers lb, cb of all ranks
Reconcile(loc, lb, cb, r, oob) ==
  IF loc[r + 1].err # "none"
  THEN [state |-> "failed", err |-> loc[r + 1].err, set |-> loc[r + 1].set]
  ELSE IF \E q \in 1..Len(loc) : loc[q].err # "none"
  THEN [state |-> "blocked", err |-> "none", set |-> loc[r + 1].set]
  ELSE LET res == UnpackAndInsert(loc[r + 1].set, Gathered(lb, NUL, r),
                                  Gathered(cb, 0, r), oob)
       IN  IF res.err # "none"
           THEN [state |-> "failed", err |-> res.err, set |-> res.set]
           ELSE [state |-> "ok", err |-> "none", set |-> res.set]

\* the ways to cut the block list into n runs of consecutive blocks, none empty
RECURSIVE Splits(_, _)
Splits(blocks, n) ==
  IF n = 1 THEN {<<blocks>>}
  ELSE UNION {{<<SubSeq(blocks, 1, k)>> \o d :
                 d \in Splits(SubSeq(blocks, k + 1, Len(blocks)), n - 1)}
              : k \in 1..(Len(blocks) - (n - 1))}

RankCounts == {1, 2, 4}

MeshKinds == {<<bD2, aS1>>, <<cD1>>, <<aD1V, bD2>>, <<aS2, bD2>>}

InitRanks ==
  /\ mesh \in [1..LogicalBlocks -> MeshKinds]
  /\ outcome = <<>>
  /\ descriptor = [stage |-> "idle"]
  /\ vtk = [stage |-> "idle"]
  /\ codec = [stage |-> "idle"]
  /\ nranks = 1
  /\ block_list = PerRank(<<>>)
  /\ pc = PerRank("idle")
  /\ err = PerRank("none")
  /\ all_unique_vars = PerRank(<<>>)
  /\ label_buffer = PerRank(<<>>)
  /\ code_buffer = PerRank(<<>>)
  /\ buffer_lengths = PerRank(<<>>)
  /\ all_labels_buffer = PerRank(<<>>)
  /\ all_codes = PerRank(<<>>)
  /\ all_labels = PerRank(<<>>)
  /\ sparse_names = PerRank(<<>>)
  /\ var_idx = PerRank(0)
  /\ coll = PerRank(<<>>)
  /\ restart_ = FALSE
  /\ InitWriter(FirstOutput)
  /\ bvals = [stage |-> "idle"]

\* one reconciliation of the mesh spread over n ranks
Run(n) ==
  \E dist \in Splits(mesh, n) :
    \E loc \in {LocalSetsOf(dist)} :
      \E lb \in {LabelBuffersOf(loc)} : \E cb \in {CodeBuffersOf(loc)} :
       \E oob \in OobFor(Gathered(lb, NUL, 0)) :
        outcome' = Append(outcome,
                     [dist |-> dist,
                      res  |-> [r \in 0..(n - 1) |-> Reconcile(loc, lb, cb, r, oob)]])

FirstRun ==
  /\ outcome = <<>>
  /\ \E n \in RankCounts : Run(n)
  /\ UNCHANGED <<event, codec, mesh, bvals, descriptor, vtk>>

SecondRun ==
  /\ Len(outcome) = 1
  /\ \E n \in RankCounts : Run(n)
  /\ UNCHANGED <<event, codec, mesh, bvals, descriptor, vtk>>

NextRanks == FirstRun \/ SecondRun

SpecRanks == InitRanks /\ [][NextRanks]_vars

(***************************************************************************)
(* Vocabulary of the properties.                                           *)
(***************************************************************************)
Range(f) == {f[i] : i \in DOMAIN f}

LabelsOf(S) == [i \in 1..Len(S) |-> S[i].label]

\* the variables selected on the blocks of rank q, and of the whole run
VarsOfRank(q) == Range(Flatten(block_list[q]))
VarsOfRun == UNION {VarsOfRank(q) : q \in Ranks}

\* rank r has built its all_unique_vars from the gathered data
PastReconcile(r) ==
  \/ pc[r] \in {"vars", "wait_write", "wait_sparse", "done"}
  \/ pc[r] = "failed" /\ err[r] = "dense"

\* rank r has gone through "unpack labels", successfully or not
Unpacked(r) == PastReconcile(r) \/ (pc[r] = "failed" /\ Len(coll[r]) = 3)

\* rank r has entered the collective write of the variable with this label
Issued(r, label) ==
  \E k \in 1..Len(coll[r]) : coll[r][k].op = "HDF5WriteND" /\ coll[r][k].data = label

\* the variable loop of rank r is past position i of all_unique_vars
PastVariable(r, i) ==
  \/ pc[r] \in {"wait_sparse", "done"}
  \/ pc[r] \in {"vars", "wait_write"} /\ var_idx[r] > i
  \/ pc[r] = "failed" /\ err[r] = "dense" /\ var_idx[r] > i

\* rank r waits in a collective call that some rank has not entered
Blocked(r) ==
  /\ pc[r] \in {"wait_lengths", "wait_labels", "wait_codes", "wait_write", "wait_sparse"}
  /\ ~Arrived(r)

\* no rank will take another step
Quiescent == \A r \in Ranks : pc[r] \in {"failed", "done"} \/ Blocked(r)

\* a variable whose component count the constructor rejects
OutOfRange(v) == v.dim4 < 1 \/ v.dim4 > max_vlen

\* two descriptors of one label with two component counts, among vs
Mismatched(vs) ==
  \E v \in vs : \E w \in vs :
    ~OutOfRange(v) /\ ~OutOfRange(w) /\ v.label = w.label /\ v.dim4 # w.dim4

(***************************************************************************)
(* C1: in one output event every rank issues the collective dataset write  *)
(* for every variable of the GlobalVariableSet, also a rank none of whose  *)
(* blocks has the variable: for each variable all ranks call the write or  *)
(* none does.                                                              *)
(***************************************************************************)
C1_EveryRankWritesEveryVariable ==
  \A r \in Ranks : \A i \in 1..Len(all_unique_vars[r]) :
    /\ (PastReconcile(r) /\ PastVariable(r, i)) => Issued(r, all_unique_vars[r][i].label)
    /\ \A q \in Ranks :
         (PastReconcile(r) /\ PastVariable(r, i) /\ PastReconcile(q) /\ PastVariable(q, i)
            /\ all_unique_vars[q][i].label = all_unique_vars[r][i].label)
         => (Issued(r, all_unique_vars[r][i].label) <=> Issued(q, all_unique_vars[r][i].label))

(***************************************************************************)
(* C2: after reconciliation every rank holds an identical                  *)
(* GlobalVariableSet: same labels in the same order, and for each label    *)
(* the same component count, is_sparse and is_vector.                      *)
(***************************************************************************)
C2_IdenticalSets ==
  \A r \in Ranks : \A q \in Ranks :
    (PastReconcile(r) /\ PastReconcile(q)) => all_unique_vars[r] = all_unique_vars[q]

(***************************************************************************)
(* C3: the GlobalVariableSet a rank obtains from reconciliation holds      *)
(* exactly the labels selected on some block of some rank.                 *)
(***************************************************************************)
C3_UnionOfLabels ==
  \A r \in Ranks :
    PastReconcile(r) => Range(LabelsOf(all_unique_vars[r])) = {v.label : v \in VarsOfRun}

\* a rank holds, after reconciliation, a label that none of its own blocks has
C3_Witness ==
  \E r \in Ranks :
    /\ PastReconcile(r)
    /\ \E l \in Range(LabelsOf(all_unique_vars[r])) : \A v \in VarsOfRank(r) : v.label # l
    /\ \E v \in VarsOfRank(r) : \E q \in Ranks : \A w \in VarsOfRank(q) : w.label # v.label

(***************************************************************************)
(* C4: the GlobalVariableSet holds each label once and is ordered by       *)
(* label, the dataset writes of a rank are issued in increasing label      *)
(* order, and the local sets {b: dense 2, a: sparse 1} and {c: dense 1}    *)
(* reconcile to the order a, b, c.                                         *)
(***************************************************************************)
StrictlyIncreasing(labels) ==
  \A i \in 1..(Len(labels) - 1) : StrLess(labels[i], labels[i + 1])

IsWrite(c) == c.op = "HDF5WriteND"
WrittenLabels(r) ==
  LET w == SelectSeq(coll[r], IsWrite) IN [i \in 1..Len(w) |-> w[i].data]

ExampleSets ==
  /\ nranks = 2
  /\ block_list[0] = <<<<bD2, aS1>>>>
  /\ block_list[1] = <<<<cD1>>>>

C4_OrderedByLabel ==
  \A r \in Ranks :
    /\ StrictlyIncreasing(LabelsOf(all_unique_vars[r]))
    /\ StrictlyIncreasing(WrittenLabels(r))
    /\ (ExampleSets /\ PastReconcile(r))
         => LabelsOf(all_unique_vars[r]) = <<<<97>>, <<98>>, <<99>>>>

\* the example sets are reconciled on both ranks and a write has been issued
C4_Witness ==
  /\ ExampleSets
  /\ \A r \in Ranks : PastReconcile(r) /\ Len(all_unique_vars[r]) = 3
  /\ WrittenLabels(0) = <<<<97>>>>

HasNulLabel == \E v \in VarsOfRun : NUL \in Range(v.label)

C6_RoundTrip ==
  codec.stage = "decoded" =>
    /\ codec.vinfo.vlen >= 1 /\ codec.vinfo.vlen <= 65535
    /\ codec.decoded.label = codec.vinfo.label
    /\ codec.decoded.vlen = codec.vinfo.vlen
    /\ codec.decoded.is_sparse = codec.vinfo.is_sparse
    /\ codec.decoded.is_vector = codec.vinfo.is_vector

\* the largest component count with both flags set has been decoded
C6_Witness ==
  /\ codec.stage = "decoded"
  /\ codec.vinfo.vlen = 65535 /\ codec.vinfo.is_sparse /\ codec.vinfo.is_vector

(***************************************************************************)
(* C7: constructing a VarInfo from a variable with component count <= 0 or *)
(* > 65535 is fatal, so every descriptor in the set of any rank, built     *)
(* locally or decoded, has a component count in [1, 65535].                *)
(***************************************************************************)
C7_CountsInRange ==
  \A r \in Ranks :
    /\ \A i \in 1..Len(all_unique_vars[r]) :
         all_unique_vars[r][i].vlen >= 1 /\ all_unique_vars[r][i].vlen <= 65535
    /\ ((\E v \in VarsOfRank(r) : OutOfRange(v)) /\ pc[r] # "start")
         => /\ pc[r] = "failed" /\ Len(coll[r]) = 0
            /\ err[r] = "vlen" \/ (err[r] = "lengths" /\ Mismatched(VarsOfRank(r)))

\* a rank stopped on a component count of 65536 while another rank built its set
C7_Witness ==
  \E r \in Ranks : \E q \in Ranks :
    /\ pc[r] = "failed" /\ err[r] = "vlen"
    /\ \E v \in VarsOfRank(r) : v.dim4 = 65536
    /\ q # r /\ pc[q] = "wait_lengths" /\ Len(all_unique_vars[q]) > 0

RECURSIVE Concat(_)
Concat(ss) == IF ss = <<>> THEN <<>> ELSE Head(ss) \o Concat(Tail(ss))

\* the local set of rank q at the time it is serialised
LocalSet(q) == InsertVars(<<>>, Flatten(block_list[q])).set

\* the (label, code) pairs of all ranks in rank order
SentPairs ==
  Concat([n \in 1..nranks |->
            [i \in 1..Len(LocalSet(n - 1)) |->
               <<LocalSet(n - 1)[i].label, get_info_code(LocalSet(n - 1)[i])>>]])

LabelsWellFormed ==
  \A v \in VarsOfRun : v.label # <<>> /\ TAB \notin Range(v.label)

C9_PairsRecovered ==
  LabelsWellFormed =>
    \A r \in Ranks :
      /\ pc[r] \notin {"start", "failed"} =>
           label_buffer[r] =
             Concat([i \in 1..Len(LocalSet(r)) |-> Append(LocalSet(r)[i].label, TAB)])
      /\ Unpacked(r) =>
           /\ all_labels_buffer[r] = Concat([n \in 1..nranks |-> label_buffer[n - 1]])
           /\ all_codes[r] = Concat([n \in 1..nranks |-> code_buffer[n - 1]])
           /\ Len(all_labels[r]) = Len(all_codes[r])
           /\ [i \in 1..Len(all_labels[r]) |-> <<all_labels[r][i], all_codes[r][i]>>]
                = SentPairs

(***************************************************************************)
(* C10: parsing a gathered label buffer is fatal and inserts nothing into  *)
(* the set when the buffer does not end with the tab, when it holds an     *)
(* empty label (a leading tab or two adjacent tabs), or when the number of *)
(* labels differs from the number of gathered codes.                       *)
(***************************************************************************)
NoFinalTab(buf) == buf # <<>> /\ buf[Len(buf)] # TAB
HasEmptyLabel(buf) == \E i \in 1..Len(buf) : buf[i] = TAB /\ (i = 1 \/ buf[i - 1] = TAB)
NumLabels(buf) == Cardinality({i \in 1..Len(buf) : buf[i] = TAB})

Malformed(buf, codes) ==
  NoFinalTab(buf) \/ HasEmptyLabel(buf) \/ NumLabels(buf) # Len(codes)

RECURSIVE BlocksBelow(_)
BlocksBelow(r) == IF r = 0 THEN 0 ELSE BlocksBelow(r - 1) + Len(block_list[r - 1])

\* the block rows a write covers
Rows(w) == w.offset[1]..(w.offset[1] + w.count[1] - 1)

\* two writes go to the same dataset
SameDataset(w1, w2) == w1.kind = w2.kind /\ w1.name = w2.name

\* the writes of rank r to the variable datasets
VariableWrites(r) == {k \in 1..Len(written[r]) : written[r][k].kind = "variable"}

\* the ranks that have gone through the part before the variables
Started(r) == pc[r] # "start"

(***************************************************************************)
(* C11: every dataset write of rank r uses the hyperslab offset            *)
(* [blocks of the ranks below r, 0, 0, 0, 0]; rank 0 writes at offset 0.   *)
(***************************************************************************)
C11_OffsetIsPrefixSum ==
  \A r \in Ranks :
    /\ Started(r) => local_offset[r] = <<BlocksBelow(r), 0, 0, 0, 0>>
    /\ \A k \in 1..Len(written[r]) :
         written[r][k].offset = <<BlocksBelow(r), 0, 0, 0, 0>>

\* rank 1 has written a variable dataset and SparseInfo behind the blocks of rank 0
C11_Witness ==
  /\ nranks = 2
  /\ Len(block_list[0]) = 2
  /\ pc[1] = "done"
  /\ VariableWrites(1) # {}
  /\ written[1][Len(written[1])].kind = "sparse"
  /\ written[1][Len(written[1])].offset = <<2, 0, 0, 0, 0>>

(***************************************************************************)
(* C12: the block rows [offset, offset + local count) of the ranks are     *)
(* pairwise disjoint and together are [0, nbtotal); no rank writes a       *)
(* dataset twice, so no row of a dataset is written by two ranks or twice. *)
(***************************************************************************)
C12_RowsDisjointAndCover ==
  /\ \A r \in Ranks : \A k \in 1..Len(written[r]) :
       /\ written[r][k].count[1] = Len(block_list[r])
       /\ written[r][k].global[1] = BlocksBelow(nranks)
       /\ \A k2 \in 1..Len(written[r]) :
            k2 # k => ~SameDataset(written[r][k], written[r][k2])
       /\ \A q \in Ranks \ {r} : \A k2 \in 1..Len(written[q]) :
            SameDataset(written[r][k], written[q][k2])
              => Rows(written[r][k]) \cap Rows(written[q][k2]) = {}
  /\ (\A r \in Ranks : Started(r))
       => UNION {Rows(written[r][1]) : r \in Ranks} = 0..(BlocksBelow(nranks) - 1)

\* two ranks with two blocks and one block have both written the same variable
C12_Witness ==
  /\ nranks = 2
  /\ Len(block_list[0]) = 2 /\ Len(block_list[1]) = 1
  /\ \E k \in VariableWrites(0) : \E k2 \in VariableWrites(1) :
       /\ written[0][k].name = written[1][k2].name
       /\ Rows(written[0][k]) = {0, 1}
       /\ Rows(written[1][k2]) = {2}

\* the element of the set of rank r with this label
VarOf(r, label) ==
  all_unique_vars[r][CHOOSE i \in 1..Len(all_unique_vars[r]) :
                       all_unique_vars[r][i].label = label]

\* the local blocks of rank r, from 0, and those that lack the label
LocalBlocks(r) == 0..(Len(block_list[r]) - 1)

Lacking(r, label) == {b \in LocalBlocks(r) : ~Found(block_list[r][b + 1], label)}

\* rank r is at the head of the variable loop with a variable to pack
AtVariable(r) == pc[r] = "vars" /\ var_idx[r] <= Len(all_unique_vars[r])

\* rank r moves in this step
Moves(r) == pc'[r] # pc[r] \/ var_idx'[r] # var_idx[r]

(***************************************************************************)
(* C13: when the variable a rank packs is not sparse and one of its local  *)
(* blocks lacks it, the rank raises the fatal 'Unable to find dense        *)
(* variable' error and issues no write for the variable; no rank ever has  *)
(* written a variable that is not sparse and that one of its blocks lacks. *)
(***************************************************************************)
C13_DenseMissingIsFatal ==
  [][\A r \in Ranks :
       /\ \A k \in VariableWrites(r) :
            ~VarOf(r, written[r][k].name).is_sparse => Lacking(r, written[r][k].name) = {}
       /\ (/\ AtVariable(r)
           /\ ~all_unique_vars[r][var_idx[r]].is_sparse
           /\ Lacking(r, all_unique_vars[r][var_idx[r]].label) # {}
           /\ Moves(r))
          => /\ pc'[r] = "failed"
             /\ err'[r] = "dense"
             /\ written'[r] = written[r]
             /\ coll'[r] = coll[r]]_vars

\* a rank has failed on a dense variable that only another rank has
C13_Witness ==
  \E r \in Ranks :
    /\ pc[r] = "failed" /\ err[r] = "dense"
    /\ var_idx[r] > 1
    /\ Lacking(r, all_unique_vars[r][var_idx[r]].label) = LocalBlocks(r)

(***************************************************************************)
(* C14: a sparse variable that a local block lacks is no error, and in the *)
(* buffer handed to the write of the variable the region of that block     *)
(* (varSize * vlen entries) is zero throughout.                            *)
(***************************************************************************)
\* the region of block b in the data of a write of a variable of vlen components
Region(w, b, vlen) ==
  {w.data[p] : p \in (b * varSize * vlen + 1)..((b + 1) * varSize * vlen)}

C14_SparseMissingIsZero ==
  \A r \in Ranks :
    /\ err[r] = "dense" => ~all_unique_vars[r][var_idx[r]].is_sparse
    /\ \A k \in VariableWrites(r) :
         LET w == written[r][k]
             v == VarOf(r, w.name)
         IN  /\ Len(w.data) = Len(block_list[r]) * varSize * v.vlen
             /\ v.is_sparse => \A b \in Lacking(r, w.name) : Region(w, b, v.vlen) = {0}

\* a rank has written a sparse variable that its second block lacks, after
\* an earlier variable had filled that part of the buffer
C14_Witness ==
  \E r \in Ranks : \E k \in VariableWrites(r) : \E k0 \in VariableWrites(r) :
    /\ k0 < k
    /\ VarOf(r, written[r][k].name).is_sparse
    /\ Lacking(r, written[r][k].name) = {1}
    /\ written[r][k0].data[varSize + 1] # 0
    /\ written[r][k].data[1] # 0

\* the position in the staging buffer of component l at cell (k, j, i) of
\* the local block b (from 0) for a variable of vlen components
Position(b, k, j, i, l, vlen) ==
  (((b * nx3 + (k - out_kb.s)) * nx2 + (j - out_jb.s)) * nx1 + (i - out_ib.s)) * vlen + l

(***************************************************************************)
(* C35: when a variable of vlen components has been packed for all local   *)
(* blocks the write index of the staging buffer is (local block count) *   *)
(* nx3 * nx2 * nx1 * vlen, which is no more than the size of the buffer,   *)
(* nx3 * nx2 * nx1 * vlen_max * (local block count); component l at cell   *)
(* (k, j, i) of the b-th local block is at position                        *)
(* (((b*nx3 + (k - ks))*nx2 + (j - js))*nx1 + (i - is))*vlen + l, whether  *)
(* the blocks before had the variable or were filled with zeros.           *)
(***************************************************************************)
C35_StagingIndex ==
  \A r \in Ranks :
    /\ AtVariable(r) =>
         LET vinfo == all_unique_vars[r][var_idx[r]]
             pk    == PackVar(block_list[r], vinfo, sparse_names[r], tmpData[r],
                              sparse_expanded[r], sparse_assigned[r])
         IN  /\ Len(tmpData[r])
                  = nx3 * nx2 * nx1 * VlenMax(all_unique_vars[r]) * Len(block_list[r])
             /\ pk.index <= Len(tmpData[r])
             /\ ~pk.fails => pk.index = Len(block_list[r]) * nx3 * nx2 * nx1 * vinfo.vlen
    /\ \A n \in VariableWrites(r) :
         LET w    == written[r][n]
             vlen == VarOf(r, w.name).vlen
         IN  \A b \in LocalBlocks(r) :
             \A k \in out_kb.s..out_kb.e : \A j \in out_jb.s..out_jb.e :
             \A i \in out_ib.s..out_ib.e : \A l \in 0..(vlen - 1) :
               w.data[Position(b, k, j, i, l, vlen) + 1] =
                 IF Found(block_list[r][b + 1], w.name)
                 THEN CellValue(FirstFound(block_list[r][b + 1], w.name), l, k, j, i)
                 ELSE 0

\* a rank has written a sparse variable that its first block lacks and its
\* second block has: the data of the second block follow the zeros
C35_Witness ==
  \E r \in Ranks : \E n \in VariableWrites(r) :
    /\ Len(block_list[r]) >= 2
    /\ Lacking(r, written[r][n].name) = {0}
    /\ written[r][n].data[Position(1, out_kb.s, out_jb.s, out_ib.e, 0,
                                   VarOf(r, written[r][n].name).vlen) + 1] # 0

\* rank r has entered the write of SparseInfo
SparseInfoWritten(r) == pc[r] \in {"wait_sparse", "done"}

\* the write of SparseInfo of rank r
SparseInfoOf(r) == written[r][Len(written[r])]

\* "true" / "false" as sparse_expanded holds them
Flag(b) == IF b THEN "true" ELSE "false"

\* the sparse variables of the set of rank r, in the order of the set
SparseLabels(r) ==
  LET S   == all_unique_vars[r]
      idx == {i \in 1..Len(S) : S[i].is_sparse}
      nth(c) == CHOOSE i \in idx : Cardinality({i2 \in idx : i2 < i}) = c - 1
  IN  [c \in 1..Cardinality(idx) |-> S[nth(c)].label]

(***************************************************************************)
(* C15: when SparseInfo is written, for every local block b and every      *)
(* sparse variable v of the set the entry sparse_expanded[b][v] has been   *)
(* assigned exactly once in the event and is true exactly if the block     *)
(* holds a variable with v's label.                                        *)
(***************************************************************************)
C15_ExpandedAssignedOnce ==
  \A r \in Ranks :
    SparseInfoWritten(r) =>
      LET names == SparseLabels(r)
          ns    == Len(names)
      IN  /\ Len(sparse_expanded[r]) = Len(block_list[r]) * ns
          /\ \A b \in LocalBlocks(r) : \A c \in 1..ns :
               /\ sparse_assigned[r][b * ns + c] = 1
               /\ sparse_expanded[r][b * ns + c] = Flag(Found(block_list[r][b + 1], names[c]))

\* a rank with two blocks and two sparse variables, each on one block only
C15_Witness ==
  \E r \in Ranks :
    /\ SparseInfoWritten(r)
    /\ Len(block_list[r]) = 2
    /\ sparse_expanded[r] = <<"true", "false", "false", "true">>

(***************************************************************************)
(* C16: on every rank SparseInfo is written after all the variable         *)
(* datasets of the event, and SparseFields lists the sparse variables of   *)
(* the set in the order of the set, so that column c of SparseInfo tells   *)
(* of the c-th name of SparseFields.                                       *)
(***************************************************************************)
C16_SparseInfoLastAndOrdered ==
  \A r \in Ranks :
    /\ \A k \in 1..Len(written[r]) : \A k2 \in 1..Len(written[r]) :
         (written[r][k].kind = "sparse" /\ written[r][k2].kind = "variable") => k2 < k
    /\ \A k \in 1..Len(coll[r]) : \A k2 \in 1..Len(coll[r]) :
         (coll[r][k].op = "HDF5Write2D" /\ coll[r][k2].op = "HDF5WriteND") => k2 < k
    /\ SparseInfoWritten(r) =>
         /\ var_idx[r] > Len(all_unique_vars[r])
         /\ SparseInfoOf(r).kind = "sparse"
         /\ SparseInfoOf(r).count[2] = Len(SparseLabels(r))
    /\ pc[r] = "done" =>
         LET fields == sparse_fields[r][Len(sparse_fields[r])]
             ns     == Len(fields)
         IN  /\ fields = SparseLabels(r)
             /\ \A b \in LocalBlocks(r) : \A c \in 1..ns :
                  SparseInfoOf(r).data[b * ns + c]
                    = Flag(Found(block_list[r][b + 1], fields[c]))

\* a rank is done with two names in SparseFields after two variable writes
C16_Witness ==
  \E r \in Ranks :
    /\ pc[r] = "done"
    /\ Len(sparse_fields[r][1]) = 2
    /\ Cardinality(VariableWrites(r)) >= 2
    /\ Len(all_unique_vars[r]) > 2

(***************************************************************************)
(* C17: the companion XDMF file of an event is produced by rank 0 and by   *)
(* no other rank, and by rank 0 only after all its variable writes and its *)
(* SparseInfo write of the event have been issued.                         *)
(***************************************************************************)
\* the part of the claim that holds of every event
XdmfOnlyRankZeroAndLast ==
  \A r \in Ranks :
    /\ r # 0 => xdmf[r] = <<>>
    /\ xdmf[r] # <<>> =>
         /\ pc[r] = "done"
         /\ var_idx[r] > Len(all_unique_vars[r])
         /\ SparseInfoOf(r).kind = "sparse"
         /\ xdmf[r] = <<files[r][1]>>

\* the claim as it stands: every event that rank 0 completes has the file
C17_XdmfInEveryEvent ==
  /\ XdmfOnlyRankZeroAndLast
  /\ pc[0] = "done" => Len(xdmf[0]) = 1

\* the claim for the events that are not restart outputs; a restart output
\* has no companion file
C17_XdmfUnlessRestart ==
  /\ XdmfOnlyRankZeroAndLast
  /\ pc[0] = "done" => Len(xdmf[0]) = (IF restart_ THEN 0 ELSE 1)

\* both ranks are done and rank 0 alone has produced the file
C17_Witness ==
  /\ nranks = 2
  /\ pc[0] = "done" /\ pc[1] = "done"
  /\ ~restart_
  /\ Len(xdmf[0]) = 1 /\ xdmf[1] = <<>>
  /\ VariableWrites(0) # {}

(***************************************************************************)
(* Successive output events of one output object on one rank.  The mesh    *)
(* driver calls WriteOutputFileImpl again; what the function declares is   *)
(* fresh in every call, what the output object, the run configuration and  *)
(* the file system hold stays.                                             *)
(***************************************************************************)
MaxEvents == 3

\* the output parameters the object can start with
StartParams ==
  {[file_number |-> n, next_time |-> t, dt |-> d] :
     n \in {0, 99998}, t \in {0, 5}, d \in {1, 2}}

\* the block lists of the rank
EventBlockLists ==
  {<<a>> : a \in BlockKinds} \cup {<<a, b>> : a \in BlockKinds, b \in BlockKinds}

InitEvents ==
  /\ nranks = 1
  /\ block_list \in [Ranks -> EventBlockLists]
  /\ pc = PerRank("start")
  /\ err = PerRank("none")
  /\ all_unique_vars = PerRank(<<>>)
  /\ label_buffer = PerRank(<<>>)
  /\ code_buffer = PerRank(<<>>)
  /\ buffer_lengths = PerRank(<<>>)
  /\ all_labels_buffer = PerRank(<<>>)
  /\ all_codes = PerRank(<<>>)
  /\ all_labels = PerRank(<<>>)
  /\ sparse_names = PerRank(<<>>)
  /\ var_idx = PerRank(0)
  /\ coll = PerRank(<<>>)
  /\ restart_ \in BOOLEAN
  /\ \E op \in StartParams : InitWriter(op)
  /\ bvals = [stage |-> "idle"]
  /\ codec = [stage |-> "idle"]
  /\ mesh = <<>>
  /\ outcome = <<>>
  /\ descriptor = [stage |-> "idle"]
  /\ vtk = [stage |-> "idle"]

\* WriteOutputFileImpl is entered for the next output of the object
NewEvent(r) ==
  /\ pc[r] = "done"
  /\ Len(files[r]) < MaxEvents
  /\ pc' = [pc EXCEPT ![r] = "start"]
  /\ all_unique_vars' = [all_unique_vars EXCEPT ![r] = <<>>]
  /\ label_buffer' = [label_buffer EXCEPT ![r] = <<>>]
  /\ code_buffer' = [code_buffer EXCEPT ![r] = <<>>]
  /\ buffer_lengths' = [buffer_lengths EXCEPT ![r] = <<>>]
  /\ all_labels_buffer' = [all_labels_buffer EXCEPT ![r] = <<>>]
  /\ all_codes' = [all_codes EXCEPT ![r] = <<>>]
  /\ all_labels' = [all_labels EXCEPT ![r] = <<>>]
  /\ sparse_names' = [sparse_names EXCEPT ![r] = <<>>]
  /\ var_idx' = [var_idx EXCEPT ![r] = 0]
  /\ local_offset' = [local_offset EXCEPT ![r] = <<>>]
  /\ local_count' = [local_count EXCEPT ![r] = <<>>]
  /\ global_count' = [global_count EXCEPT ![r] = <<>>]
  /\ tmpData' = [tmpData EXCEPT ![r] = <<>>]
  /\ sparse_expanded' = [sparse_expanded EXCEPT ![r] = <<>>]
  /\ sparse_assigned' = [sparse_assigned EXCEPT ![r] = <<>>]
  /\ written' = [written EXCEPT ![r] = <<>>]
  /\ groups' = [groups EXCEPT ![r] = <<>>]
  /\ UNCHANGED aux
  /\ UNCHANGED <<nranks, block_list, err, coll, restart_, files, sparse_fields, xdmf,
                 params>>

NextEvents == Next \/ \E r \in Ranks : NewEvent(r)

SpecEvents == InitEvents /\ [][NextEvents]_vars

\* the number a text of digits stands for
RECURSIVE Number(_)
Number(txt) ==
  IF txt = <<>> THEN 0
  ELSE 10 * Number(SubSeq(txt, 1, Len(txt) - 1)) + (txt[Len(txt)] - 48)

\* the step of rank r that completes an output event
Completes(r) == pc[r] = "wait_sparse" /\ pc'[r] = "done"

\* the parameters of rank r are advanced by one event and stored in pin
AdvancedAndStored(r) ==
  /\ output_params'[r].file_number = output_params[r].file_number + 1
  /\ output_params'[r].next_time = output_params[r].next_time + output_params[r].dt
  /\ output_params'[r].dt = output_params[r].dt
  /\ pin'[r] = [file_number |-> output_params'[r].file_number,
                next_time   |-> output_params'[r].next_time]

\* the files of rank r have strictly increasing numbers and distinct names
FilesIncrease(r) ==
  \A k \in 1..Len(files[r]) : \A k2 \in 1..Len(files[r]) :
    k < k2 => /\ Number(files[r][k].number) < Number(files[r][k2].number)
              /\ files[r][k] # files[r][k2]

(***************************************************************************)
(* C18: an output event that completes without a fatal error increases     *)
(* output_params.file_number by exactly 1 and output_params.next_time by   *)
(* exactly output_params.dt and stores both in the run configuration; no   *)
(* other step changes them; so the events of one output object use         *)
(* strictly increasing file numbers and distinct file names.               *)
(***************************************************************************)
C18_AdvanceByOneEvent ==
  /\ [](\A r \in Ranks : FilesIncrease(r))
  /\ [][\A r \in Ranks :
          IF Completes(r) THEN AdvancedAndStored(r)
          ELSE output_params'[r] = output_params[r] /\ pin'[r] = pin[r]]_vars

\* three events are complete, the last with a number of six digits
C18_Witness ==
  \E r \in Ranks :
    /\ pc[r] = "done"
    /\ Len(files[r]) = 3
    /\ Len(files[r][3].number) = 6
    /\ pin[r].file_number = 100001
    /\ pin[r].next_time = 11

(***************************************************************************)
(* The boundary condition dispatcher: one call of                          *)
(* ApplyBoundaryConditionsOnCoarseOrFine(rc, coarse) on one block.         *)
(***************************************************************************)
\* enum class BoundaryFace, in the order of its values 0..5
BoundaryFaces == <<"inner_x1", "outer_x1", "inner_x2", "outer_x2", "inner_x3", "outer_x3">>

BOUNDARY_NFACES == Len(BoundaryFaces)

\* static_cast<BoundaryFace>(i)
FaceOf(i) == BoundaryFaces[i + 1]

\* enum class BoundaryFlag
BoundaryFlags == {"block", "reflect", "outflow", "periodic", "user", "undef"}

\* a test of the flag that lets periodic faces through
FlagIsPhysicalOrPeriodic(flag) ==
  IF flag = "block" THEN FALSE
  ELSE IF flag = "undef" THEN FALSE
  ELSE TRUE

\* the three tests of the flag in DoPhysicalBoundary_
FlagIsPhysical(flag) ==
  IF flag = "block" THEN FALSE
  ELSE IF flag = "undef" THEN FALSE
  ELSE IF flag = "periodic" THEN FALSE
  ELSE TRUE

\* a test of the face that knows no dimension
FaceInAnyDimension(face, nd) == TRUE

\* the two tests of face and ndim in DoPhysicalBoundary_
FaceInDimension(face, nd) ==
  IF nd < 3 /\ (face = "inner_x3" \/ face = "outer_x3") THEN FALSE
  ELSE IF nd < 2 /\ (face = "inner_x2" \/ face = "outer_x2") THEN FALSE
  ELSE TRUE

DoPhysicalBoundary_(flag, face, nd) ==
  IF ~FlagIsPhysical(flag) THEN FALSE
  ELSE IF ~FaceInDimension(face, nd) THEN FALSE
  ELSE TRUE

\* the flags of the six faces: any assignment that uses two flags at most
FlagVectors ==
  {bf \in [1..BOUNDARY_NFACES -> BoundaryFlags] :
     Cardinality({bf[k] : k \in 1..BOUNDARY_NFACES}) <= 2}

\* pmesh->MeshBndryFnctn: a function for every face, for no face, or for
\* every face but one
Registrations ==
  {[k \in 1..BOUNDARY_NFACES |-> "set"], [k \in 1..BOUNDARY_NFACES |-> "null"]}
    \cup {[k \in 1..BOUNDARY_NFACES |-> IF k = g THEN "null" ELSE "set"]
            : g \in 1..BOUNDARY_NFACES}

\* how the dispatcher is reached: called with either argument, or from
\* ProlongateBoundaries on a mesh of one level or of several; coarse is the
\* parameter of the dispatcher and is not bound before it is called
Entries ==
  {[entry |-> "apply", multilevel |-> m, coarse |-> c] : m \in BOOLEAN, c \in BOOLEAN}
    \cup {[entry |-> "prolongate", multilevel |-> m, coarse |-> FALSE] : m \in BOOLEAN}

InitBC ==
  /\ nranks = 1
  /\ block_list = PerRank(<<>>)
  /\ pc = PerRank("done")
  /\ err = PerRank("none")
  /\ all_unique_vars = PerRank(<<>>)
  /\ label_buffer = PerRank(<<>>)
  /\ code_buffer = PerRank(<<>>)
  /\ buffer_lengths = PerRank(<<>>)
  /\ all_labels_buffer = PerRank(<<>>)
  /\ all_codes = PerRank(<<>>)
  /\ all_labels = PerRank(<<>>)
  /\ sparse_names = PerRank(<<>>)
  /\ var_idx = PerRank(0)
  /\ coll = PerRank(<<>>)
  /\ restart_ = FALSE
  /\ InitWriter(FirstOutput)
  /\ \E nd \in 1..3 : \E bf \in FlagVectors : \E fn \in Registrations :
     \E en \in Entries :
       bvals = [stage |-> IF en.entry = "apply" THEN "loop" ELSE "enter",
                entry |-> en.entry, multilevel |-> en.multilevel,
                ndim |-> nd, boundary_flag |-> bf, MeshBndryFnctn |-> fn,
                coarse |-> en.coarse, i |-> 0, calls |-> <<>>, prolongations |-> 0]
  /\ codec = [stage |-> "idle"]
  /\ mesh = <<>>
  /\ outcome = <<>>
  /\ descriptor = [stage |-> "idle"]
  /\ vtk = [stage |-> "idle"]

\* a return at the first line of ProlongateBoundaries that never happens
ReturnsAtOnceNever(multilevel) == FALSE

\* if (!(...->pmy_mesh->multilevel)) return TaskStatus::complete
ReturnsAtOnce(multilevel) == ~multilevel

\* an argument that asks for the fine zones
CoarseArgumentFine == FALSE

\* ApplyBoundaryConditionsOnCoarseOrFine(rc, true)
CoarseArgument == TRUE

\* ProlongateBoundaries is entered: it returns at once on a mesh of one level,
\* else it calls the dispatcher for the coarse zones
ProlongateBoundaries ==
  /\ bvals.stage = "enter"
  /\ IF ReturnsAtOnce(bvals.multilevel)
     THEN bvals' = [bvals EXCEPT !.stage = "complete"]
     ELSE bvals' = [bvals EXCEPT !.stage = "loop", !.coarse = CoarseArgument, !.i = 0]
  /\ UNCHANGED <<event, codec, mesh, outcome, descriptor, vtk>>

\* a call that is made twice
CallBndryFnctnTwice(calls, face, coarse) ==
  Append(Append(calls, [face |-> face, coarse |-> coarse]),
         [face |-> face, coarse |-> coarse])

\* pmesh->MeshBndryFnctn[i](rc, coarse)
CallBndryFnctn(calls, face, coarse) == Append(calls, [face |-> face, coarse |-> coarse])

\* one turn of the loop over the faces.  With no function for a face that
\* qualifies, PARTHENON_DEBUG_REQUIRE stops a debug build; another build
\* calls through the null function and is stopped there.
LoopFace ==
  /\ bvals.stage = "loop"
  /\ bvals.i < BOUNDARY_NFACES
  /\ IF DoPhysicalBoundary_(bvals.boundary_flag[bvals.i + 1], FaceOf(bvals.i), bvals.ndim)
     THEN IF bvals.MeshBndryFnctn[bvals.i + 1] = "null"
          THEN \E how \in {"fatal", "crashed"} :
                 bvals' = [bvals EXCEPT !.stage = how]
          ELSE bvals' = [bvals EXCEPT
                 !.calls = CallBndryFnctn(@, FaceOf(bvals.i), bvals.coarse),
                 !.i = @ + 1]
     ELSE bvals' = [bvals EXCEPT !.i = @ + 1]
  /\ UNCHANGED <<event, codec, mesh, outcome, descriptor, vtk>>

\* the dispatcher returns TaskStatus::complete, to its caller or to
\* ProlongateBoundaries
ReturnComplete ==
  /\ bvals.stage = "loop"
  /\ bvals.i = BOUNDARY_NFACES
  /\ bvals' = [bvals EXCEPT !.stage = IF bvals.entry = "apply" THEN "complete" ELSE "step2"]
  /\ UNCHANGED <<event, codec, mesh, outcome, descriptor, vtk>>

\* rc->ProlongateBoundaries() and return TaskStatus::complete
ProlongateStep ==
  /\ bvals.stage = "step2"
  /\ bvals' = [bvals EXCEPT !.prolongations = @ + 1, !.stage = "complete"]
  /\ UNCHANGED <<event, codec, mesh, outcome, descriptor, vtk>>

NextBC == ProlongateBoundaries \/ LoopFace \/ ReturnComplete \/ ProlongateStep

SpecBC == InitBC /\ [][NextBC]_vars

\* the dispatcher is at work or has ended
Dispatching == bvals.stage \in {"enter", "loop", "step2", "complete", "fatal", "crashed"}

\* the flag of a face
FlagOf(face) ==
  bvals.boundary_flag[CHOOSE k \in 1..BOUNDARY_NFACES : BoundaryFaces[k] = face]

\* the faces whose boundary function has been called
Called == {bvals.calls[k].face : k \in 1..Len(bvals.calls)}

(***************************************************************************)
(* C19: the dispatcher never calls the boundary function of a face whose   *)
(* flag is block, periodic or undef, whatever ndim is and whether or not   *)
(* a function is registered for the face.                                  *)
(***************************************************************************)
C19_NoCallForNonPhysicalFlag ==
  Dispatching =>
    \A face \in Called : FlagOf(face) \notin {"block", "periodic", "undef"}

\* a finished call in three dimensions with functions for all faces, some
\* faces periodic and the others called
C19_Witness ==
  /\ Dispatching
  /\ bvals.stage = "complete"
  /\ bvals.ndim = 3
  /\ \A k \in 1..BOUNDARY_NFACES : bvals.MeshBndryFnctn[k] = "set"
  /\ FlagOf("inner_x1") = "periodic" /\ FlagOf("outer_x1") = "periodic"
  /\ Called = {"inner_x2", "outer_x2", "inner_x3", "outer_x3"}

(***************************************************************************)
(* C20: the dispatcher never calls the boundary function of inner_x3 or    *)
(* outer_x3 when ndim < 3, nor of inner_x2 or outer_x2 when ndim < 2,      *)
(* whatever the flag of the face and even if a function is registered.     *)
(***************************************************************************)
C20_NoCallForSuppressedDimension ==
  Dispatching =>
    /\ bvals.ndim < 3 => Called \cap {"inner_x3", "outer_x3"} = {}
    /\ bvals.ndim < 2 => Called \cap {"inner_x2", "outer_x2"} = {}

\* a finished call in two dimensions, every face reflecting and with a
\* function: the four faces of x1 and x2 are called, those of x3 are not
C20_Witness ==
  /\ Dispatching
  /\ bvals.stage = "complete"
  /\ bvals.ndim = 2
  /\ \A k \in 1..BOUNDARY_NFACES :
       bvals.MeshBndryFnctn[k] = "set" /\ bvals.boundary_flag[k] = "reflect"
  /\ Called = {"inner_x1", "outer_x1", "inner_x2", "outer_x2"}

\* face number k (1..6) qualifies for a physical boundary condition
Qualifies(k) ==
  /\ bvals.boundary_flag[k] \in {"reflect", "outflow", "user"}
  /\ k <= 2 * bvals.ndim

\* the calls one pass over the faces 1..n makes: one for each face that
\* qualifies, in the order of the faces, with argument c
RECURSIVE CallsUpTo(_, _)
CallsUpTo(n, c) ==
  IF n = 0 THEN <<>>
  ELSE CallsUpTo(n - 1, c)
         \o (IF Qualifies(n) THEN <<[face |-> BoundaryFaces[n], coarse |-> c]>> ELSE <<>>)

\* the dispatcher was called by the mesh driver itself
Applied == Dispatching /\ bvals.entry = "apply"

\* the dispatcher was or will be called by ProlongateBoundaries
Prolongating == Dispatching /\ bvals.entry = "prolongate"

(***************************************************************************)
(* C21: one call of ApplyBoundaryConditionsOnCoarseOrFine(rc, coarse)      *)
(* calls the registered function of a face exactly once if the flag of     *)
(* the face is reflect, outflow or user and the face is dimensionally      *)
(* valid, and never otherwise; the calls are made in the order of the      *)
(* face index and each gets the caller's coarse argument.                  *)
(***************************************************************************)
C21_OnceEachInFaceOrder ==
  Applied =>
    /\ bvals.calls = CallsUpTo(bvals.i, bvals.coarse)
    /\ bvals.stage = "complete" => bvals.calls = CallsUpTo(BOUNDARY_NFACES, bvals.coarse)

\* a finished call for the fine zones in two dimensions: outflow on x1 and
\* x2, all functions registered, four calls
C21_Witness ==
  /\ Applied
  /\ bvals.stage = "complete"
  /\ ~bvals.coarse
  /\ bvals.ndim = 2
  /\ \A k \in 1..BOUNDARY_NFACES : bvals.boundary_flag[k] = "outflow"
  /\ Len(bvals.calls) = 4
  /\ bvals.calls[1].face = "inner_x1" /\ bvals.calls[4].face = "outer_x2"

\* a face that qualifies has no function
NullQualifying == \E k \in 1..BOUNDARY_NFACES : Qualifies(k) /\ bvals.MeshBndryFnctn[k] = "null"

(***************************************************************************)
(* C22: if a face that qualifies for a physical boundary condition has no  *)
(* registered function, the dispatcher fails fatally before any boundary   *)
(* function has modified a cell of the block, those of faces of lower      *)
(* index with a valid function included.                                   *)
(***************************************************************************)
C22_FatalBeforeAnyCall ==
  (Applied /\ NullQualifying) =>
    /\ bvals.calls = <<>>
    /\ bvals.stage \in {"loop", "fatal"}

(***************************************************************************)
(* C23: on a mesh that is not multilevel ProlongateBoundaries returns      *)
(* TaskStatus::complete without a call of a boundary function and without  *)
(* the prolongation step.                                                  *)
(***************************************************************************)
C23_NoOpOnOneLevel ==
  (Prolongating /\ ~bvals.multilevel) =>
    /\ bvals.stage \in {"enter", "complete"}
    /\ bvals.calls = <<>>
    /\ bvals.prolongations = 0

\* the call has returned on a mesh of one level whose faces all qualify and
\* have a function
C23_Witness ==
  /\ Prolongating
  /\ ~bvals.multilevel
  /\ bvals.stage = "complete"
  /\ bvals.ndim = 3
  /\ \A k \in 1..BOUNDARY_NFACES :
       bvals.boundary_flag[k] = "reflect" /\ bvals.MeshBndryFnctn[k] = "set"

(***************************************************************************)
(* C24: on a multilevel mesh ProlongateBoundaries applies the boundary     *)
(* conditions of all qualifying faces with coarse = true, triggers the     *)
(* prolongation step once and only after all of them, and then returns     *)
(* TaskStatus::complete; it never applies one with coarse = false.         *)
(***************************************************************************)
C24_CoarseThenProlongateOnce ==
  (Prolongating /\ bvals.multilevel) =>
    /\ \A k \in 1..Len(bvals.calls) : bvals.calls[k].coarse
    /\ bvals.prolongations \in {0, 1}
    /\ bvals.prolongations = 1 <=> bvals.stage = "complete"
    /\ bvals.stage \in {"step2", "complete"} =>
         bvals.calls = CallsUpTo(BOUNDARY_NFACES, TRUE)
    /\ bvals.stage = "loop" => bvals.calls = CallsUpTo(bvals.i, TRUE)

\* the call has returned on a multilevel mesh in three dimensions after six
\* calls and one prolongation
C24_Witness ==
  /\ Prolongating
  /\ bvals.multilevel
  /\ bvals.stage = "complete"
  /\ Len(bvals.calls) = 6
  /\ bvals.prolongations = 1

(***************************************************************************)
(* The boundary functions: one call of GenericBC<DIR, SIDE, TYPE>(rc,      *)
(* coarse) on one block.  Directions are 1, 2, 3 for X1DIR, X2DIR, X3DIR;  *)
(* a cell of the pack is (l, k, j, i) with k in direction 3, j in          *)
(* direction 2 and i in direction 1.  The kernel runs once for every       *)
(* allocated variable of the pack and every cell of the ghost region of    *)
(* the face, in any order.                                                 *)
(***************************************************************************)
NGhost == 2
MaxInterior == 2

\* the index shape of a block that has ghost cells in direction dir, nint
\* interior cells there, and tn cells in direction tdir
IndexShape(dir, nint, tdir, tn) ==
  [d \in 1..3 |->
     IF d = dir THEN [s |-> NGhost, e |-> NGhost + nint - 1, n |-> nint + 2 * NGhost]
     ELSE IF d = tdir THEN [s |-> 0, e |-> tn - 1, n |-> tn]
     ELSE [s |-> 0, e |-> 0, n |-> 1]]

\* bounds.GetBoundsI / J / K (IndexDomain::interior)
GetBoundsI(bounds) == [s |-> bounds[1].s, e |-> bounds[1].e]
GetBoundsJ(bounds) == [s |-> bounds[2].s, e |-> bounds[2].e]
GetBoundsK(bounds) == [s |-> bounds[3].s, e |-> bounds[3].e]

\* the cells (l, k, j, i) of nv variables on a block of these bounds
CellsOf(bounds, nv) ==
  {<<l, k, j, i>> : l \in 0..(nv - 1), k \in 0..(bounds[3].n - 1),
                    j \in 0..(bounds[2].n - 1), i \in 0..(bounds[1].n - 1)}

\* what a cell holds before the call: a positive value no other cell holds
PreCall(c) == 1 + c[1] + 4 * c[4] + 40 * c[3] + 400 * c[2]

\* the interior range of direction DIR
BCRange(bounds, DIR) ==
  IF DIR = 1 THEN GetBoundsI(bounds)
  ELSE IF DIR = 2 THEN GetBoundsJ(bounds) ELSE GetBoundsK(bounds)

\* a reference index on the far side of the interior
RefOpposite(range, INNER) == IF INNER THEN range.e ELSE range.s

\* const int ref = INNER ? range.s : range.e
Ref(range, INNER) == IF INNER THEN range.s ELSE range.e

\* an offset with the sign of the inner side on both sides
OffsetInnerOnly(ref, INNER) == 2 * ref - 1

\* const int offset = 2 * ref + (INNER ? -1 : 1)
Offset(ref, INNER) == 2 * ref + (IF INNER THEN -1 ELSE 1)

\* AllocatedIndices idxs(q): the indices of the allocated variables of the pack
RECURSIVE AllocatedIndices(_, _)
AllocatedIndices(pack, l) ==
  IF l >= Len(pack) THEN <<>>
  ELSE (IF pack[l + 1].allocated THEN <<l>> ELSE <<>>) \o AllocatedIndices(pack, l + 1)

\* idxs.GetVarIdx(a)
GetVarIdx(idxs, a) == idxs[a + 1]

\* IndexDomain::inner_x1 .. outer_x3 on these bounds: the cells (k, j, i)
\* outside the interior on that side of direction DIR
BndryDomain(bounds, DIR, INNER) ==
  LET lo(d) == IF d # DIR THEN 0 ELSE IF INNER THEN 0 ELSE bounds[d].e + 1
      hi(d) == IF d # DIR THEN bounds[d].n - 1
               ELSE IF INNER THEN bounds[d].s - 1 ELSE bounds[d].n - 1
  IN  {<<k, j, i>> : k \in lo(3)..hi(3), j \in lo(2)..hi(2), i \in lo(1)..hi(1)}

\* q.VectorComponent(l)
VectorComponent(pack, l) == pack[l + 1].vector_component

\* a mirror about the reference cell instead of the face
SourceCellAboutRef(TYPE, DIR, ref, offset, l, k, j, i) ==
  IF TYPE = "Reflect"
  THEN <<l, IF DIR = 3 THEN 2 * ref - k ELSE k,
            IF DIR = 2 THEN 2 * ref - j ELSE j,
            IF DIR = 1 THEN 2 * ref - i ELSE i>>
  ELSE <<l, IF DIR = 3 THEN ref ELSE k,
            IF DIR = 2 THEN ref ELSE j,
            IF DIR = 1 THEN ref ELSE i>>

\* the cell that the kernel reads for q(l, k, j, i)
SourceCell(TYPE, DIR, ref, offset, l, k, j, i) ==
  IF TYPE = "Reflect"
  THEN <<l, IF DIR = 3 THEN offset - k ELSE k,
            IF DIR = 2 THEN offset - j ELSE j,
            IF DIR = 1 THEN offset - i ELSE i>>
  ELSE <<l, IF DIR = 3 THEN ref ELSE k,
            IF DIR = 2 THEN ref ELSE j,
            IF DIR = 1 THEN ref ELSE i>>

\* a kernel that copies from the next cell towards the interior
KernelValueChained(q, pack, TYPE, DIR, ref, offset, l, k, j, i) ==
  LET step == IF offset < 2 * ref THEN 1 ELSE -1
  IN  q[<<l, IF DIR = 3 THEN k + step ELSE k,
             IF DIR = 2 THEN j + step ELSE j,
             IF DIR = 1 THEN i + step ELSE i>>]

\* the body of the kernel: the value stored in q(l, k, j, i)
KernelValue(q, pack, TYPE, DIR, ref, offset, l, k, j, i) ==
  IF TYPE = "Reflect"
  THEN (IF VectorComponent(pack, l) = DIR THEN -1 ELSE 1)
         * q[SourceCell(TYPE, DIR, ref, offset, l, k, j, i)]
  ELSE q[SourceCell(TYPE, DIR, ref, offset, l, k, j, i)]

\* the packs of variables flagged FillGhost: vector_component is 0 for a
\* component that belongs to no direction
Comp(vc, al) == [vector_component |-> vc, allocated |-> al]

\* the variables of a block: some are flagged FillGhost, some are allocated
Var(vc, al, fg) == [vector_component |-> vc, allocated |-> al, fill_ghost |-> fg]

BlockVars ==
  {<<Var(0, TRUE, FALSE), Var(0, TRUE, TRUE)>>,
   <<Var(1, TRUE, TRUE), Var(2, TRUE, FALSE), Var(0, FALSE, TRUE), Var(2, TRUE, TRUE)>>,
   <<Var(3, FALSE, TRUE), Var(0, TRUE, FALSE), Var(3, TRUE, TRUE)>>,
   <<Var(2, TRUE, TRUE), Var(1, TRUE, TRUE)>>}

\* a pack of every variable of the block
RECURSIVE PackVariablesAll(_, _)
PackVariablesAll(variables, v) ==
  IF v > Len(variables) THEN <<>> ELSE <<v>> \o PackVariablesAll(variables, v + 1)

\* rc->PackVariables({Metadata::FillGhost}, coarse): the variables of the
\* block from the v-th on that the pack views, in the order of the block
RECURSIVE PackVariables(_, _)
PackVariables(variables, v) ==
  IF v > Len(variables) THEN <<>>
  ELSE (IF variables[v].fill_ghost THEN <<v>> ELSE <<>>) \o PackVariables(variables, v + 1)

\* the pack as the kernel sees it
PackOf(variables, view) ==
  [p \in 1..Len(view) |-> Comp(variables[view[p]].vector_component,
                               variables[view[p]].allocated)]

Packs == {PackOf(variables, PackVariables(variables, 1)) : variables \in BlockVars}

InitFill ==
  /\ nranks = 1
  /\ block_list = PerRank(<<>>)
  /\ pc = PerRank("done")
  /\ err = PerRank("none")
  /\ all_unique_vars = PerRank(<<>>)
  /\ label_buffer = PerRank(<<>>)
  /\ code_buffer = PerRank(<<>>)
  /\ buffer_lengths = PerRank(<<>>)
  /\ all_labels_buffer = PerRank(<<>>)
  /\ all_codes = PerRank(<<>>)
  /\ all_labels = PerRank(<<>>)
  /\ sparse_names = PerRank(<<>>)
  /\ var_idx = PerRank(0)
  /\ coll = PerRank(<<>>)
  /\ restart_ = FALSE
  /\ InitWriter(FirstOutput)
  /\ \E DIR \in 1..3 : \E SIDE \in {"Inner", "Outer"} : \E TYPE \in {"Outflow", "Reflect"} :
     \E c \in BOOLEAN : \E nint \in 1..MaxInterior : \E cint \in 1..MaxInterior :
     \E tdir \in (1..3) \ {DIR} : \E tn \in 1..2 :
     \E variables \in BlockVars : \E view \in {PackVariables(variables, 1)} :
     \E pack \in {PackOf(variables, view)} :
       /\ tn = 1 => tdir = (DIR % 3) + 1
       /\ tn > 1 => Len(AllocatedIndices(pack, 0)) = 1
       /\ nint >= cint
       /\ bvals = [stage |-> "call", DIR |-> DIR, SIDE |-> SIDE, TYPE |-> TYPE,
                   coarse |-> c, variables |-> variables, view |-> view, pack |-> pack,
                   cellbounds |-> IndexShape(DIR, nint, tdir, tn),
                   c_cellbounds |-> IndexShape(DIR, cint, tdir, tn),
                   fine |-> [x \in CellsOf(IndexShape(DIR, nint, tdir, tn), Len(pack))
                               |-> PreCall(x)],
                   coarse_buf |-> [x \in CellsOf(IndexShape(DIR, cint, tdir, tn), Len(pack))
                                     |-> PreCall(x)],
                   ref |-> 0, offset |-> 0, idxs |-> <<>>, domain |-> {}, done |-> {}]
  /\ codec = [stage |-> "idle"]
  /\ mesh = <<>>
  /\ outcome = <<>>
  /\ descriptor = [stage |-> "idle"]
  /\ vtk = [stage |-> "idle"]

\* the bounds and the buffer that coarse selects
BoundsOf(bv) == IF bv.coarse THEN bv.c_cellbounds ELSE bv.cellbounds
PackedOf(bv) == IF bv.coarse THEN bv.coarse_buf ELSE bv.fine

\* GenericBC up to the call of par_for_bndry: ref, the pack and its allocated
\* variables, the domain of the face, offset
GenericBC ==
  /\ bvals.stage = "call"
  /\ \E INNER \in {bvals.SIDE = "Inner"} :
     \E ref \in {Ref(BCRange(BoundsOf(bvals), bvals.DIR), INNER)} :
       bvals' = [bvals EXCEPT
         !.stage = "par_for",
         !.ref = ref,
         !.idxs = AllocatedIndices(bvals.pack, 0),
         !.domain = BndryDomain(BoundsOf(bvals), bvals.DIR, INNER),
         !.offset = Offset(ref, INNER)]
  /\ UNCHANGED <<event, codec, mesh, outcome, descriptor, vtk>>

\* the kernel runs for one variable a of nb and one cell of the domain
Kernel ==
  /\ bvals.stage = "par_for"
  /\ \E a \in 0..(Len(bvals.idxs) - 1) : \E c \in bvals.domain :
       /\ <<a, c[1], c[2], c[3]>> \notin bvals.done
       /\ \E l \in {GetVarIdx(bvals.idxs, a)} :
          \E v \in {KernelValue(PackedOf(bvals), bvals.pack, bvals.TYPE, bvals.DIR,
                                bvals.ref, bvals.offset, l, c[1], c[2], c[3])} :
            bvals' = [bvals EXCEPT
              !.done = @ \cup {<<a, c[1], c[2], c[3]>>},
              !.fine = IF bvals.coarse THEN @
                       ELSE [@ EXCEPT ![<<l, c[1], c[2], c[3]>>] = v],
              !.coarse_buf = IF bvals.coarse
                             THEN [@ EXCEPT ![<<l, c[1], c[2], c[3]>>] = v]
                             ELSE @]
  /\ UNCHANGED <<event, codec, mesh, outcome, descriptor, vtk>>

\* par_for_bndry has run the kernel everywhere; GenericBC returns
GenericBCReturn ==
  /\ bvals.stage = "par_for"
  /\ \A a \in 0..(Len(bvals.idxs) - 1) : \A c \in bvals.domain :
       <<a, c[1], c[2], c[3]>> \in bvals.done
  /\ bvals' = [bvals EXCEPT !.stage = "returned"]
  /\ UNCHANGED <<event, codec, mesh, outcome, descriptor, vtk>>

NextFill == GenericBC \/ Kernel \/ GenericBCReturn

SpecFill == InitFill /\ [][NextFill]_vars

\* a boundary function is at work or has returned
Filling == bvals.stage \in {"call", "par_for", "returned"}

\* the index of cell c = (l, k, j, i) in direction d
Along(c, d) == c[5 - d]

\* cell c with its index in direction d replaced by x
Moved(c, d, x) == [c EXCEPT ![5 - d] = x]

\* the interior start and end of the selected bounds in the direction of the face
IntS == BoundsOf(bvals)[bvals.DIR].s
IntE == BoundsOf(bvals)[bvals.DIR].e

\* the ghost cells of the face, of the allocated variables of the pack
GhostCells ==
  {c \in DOMAIN PackedOf(bvals) :
     /\ bvals.pack[c[1] + 1].allocated
     /\ IF bvals.SIDE = "Inner" THEN Along(c, bvals.DIR) < IntS
        ELSE Along(c, bvals.DIR) > IntE}

\* the kernel has run for cell c
Filled(c) ==
  \/ bvals.stage = "returned"
  \/ \E a \in 0..(Len(bvals.idxs) - 1) :
       bvals.idxs[a + 1] = c[1] /\ <<a, c[2], c[3], c[4]>> \in bvals.done

(***************************************************************************)
(* C25: after an Outflow boundary function for direction DIR and side      *)
(* SIDE every ghost cell of the face holds, for every packed component,    *)
(* the pre-call value of the cell with the same transverse indices whose   *)
(* index in DIR is the interior start (Inner) or the interior end (Outer), *)
(* with no change of sign.                                                 *)
(***************************************************************************)
C25_OutflowCopiesReference ==
  (Filling /\ bvals.TYPE = "Outflow") =>
    \A c \in GhostCells :
      Filled(c) =>
        PackedOf(bvals)[c]
          = PreCall(Moved(c, bvals.DIR, IF bvals.SIDE = "Inner" THEN IntS ELSE IntE))

\* an Outflow function of the outer side of X2 has returned on the coarse
\* buffer of a block with two allocated variables and two ghost cells each
C25_Witness ==
  /\ Filling
  /\ bvals.stage = "returned"
  /\ bvals.TYPE = "Outflow" /\ bvals.SIDE = "Outer" /\ bvals.DIR = 2
  /\ bvals.coarse
  /\ Len(bvals.idxs) = 2
  /\ Cardinality(GhostCells) = 2 * NGhost
  /\ IntE > IntS

(***************************************************************************)
(* C26: after a Reflect boundary function for direction DIR every ghost    *)
(* cell of the face with DIR-index idx holds the pre-call value of the     *)
(* cell with DIR-index offset - idx, offset being 2*ref - 1 for Inner      *)
(* (ref the interior start) and 2*ref + 1 for Outer (ref the interior      *)
(* end), times -1 exactly if the vector component of the variable is DIR;  *)
(* for the interior [4, 10] and the inner side the ghost cell 3 reads 4.   *)
(***************************************************************************)
C26_ReflectMirrors ==
  /\ Offset(Ref([s |-> 4, e |-> 10], TRUE), TRUE) - 3 = 4
  /\ (Filling /\ bvals.TYPE = "Reflect") =>
       \A c \in GhostCells :
         Filled(c) =>
           LET idx    == Along(c, bvals.DIR)
               mirror == IF bvals.SIDE = "Inner" THEN 2 * IntS - 1 - idx
                         ELSE 2 * IntE + 1 - idx
               sign   == IF bvals.pack[c[1] + 1].vector_component = bvals.DIR
                         THEN -1 ELSE 1
           IN  PackedOf(bvals)[c] = sign * PreCall(Moved(c, bvals.DIR, mirror))

\* a Reflect function of the outer side of X3 has returned for a pack with a
\* variable whose vector component is 3: its ghost cells are negative
C26_Witness ==
  /\ Filling
  /\ bvals.stage = "returned"
  /\ bvals.TYPE = "Reflect" /\ bvals.SIDE = "Outer" /\ bvals.DIR = 3
  /\ \E c \in GhostCells : PackedOf(bvals)[c] < 0
  /\ IntE > IntS

\* the cells that the call writes: the kernel's targets
WrittenCells ==
  {<<GetVarIdx(bvals.idxs, a), c[1], c[2], c[3]>> :
     a \in 0..(Len(bvals.idxs) - 1), c \in bvals.domain}

\* the cells that the call reads
ReadCells ==
  {SourceCell(bvals.TYPE, bvals.DIR, bvals.ref, bvals.offset,
              w[1], w[2], w[3], w[4]) : w \in WrittenCells}

\* the buffer before the call
PreCallBuffer == [c \in DOMAIN PackedOf(bvals) |-> PreCall(c)]

(***************************************************************************)
(* C31: within one boundary function call the cells written, the ghost     *)
(* cells of the face, are disjoint from the cells read, so that the block  *)
(* is the same after every order of the kernel over (variable, k, j, i):   *)
(* whatever has run so far, every cell the kernel has run for holds what   *)
(* the kernel computes on the buffer as it was before the call, and every  *)
(* other cell is as before the call.                                       *)
(***************************************************************************)
C31_OrderIndependent ==
  bvals.stage \in {"par_for", "returned"} =>
    /\ WrittenCells \cap ReadCells = {}
    /\ ReadCells \subseteq DOMAIN PackedOf(bvals)
    /\ WrittenCells = GhostCells
    /\ \A c \in DOMAIN PackedOf(bvals) :
         PackedOf(bvals)[c] =
           IF c \in WrittenCells /\ Filled(c)
           THEN KernelValue(PreCallBuffer, bvals.pack, bvals.TYPE, bvals.DIR,
                            bvals.ref, bvals.offset, c[1], c[2], c[3], c[4])
           ELSE PreCall(c)

\* the kernel has run for some cells of a face, not for others, in a call
\* with several ghost cells in the direction of the face and across it
C31_Witness ==
  /\ bvals.stage = "par_for"
  /\ bvals.TYPE = "Reflect"
  /\ Cardinality(bvals.done) = 2
  /\ Cardinality(WrittenCells) = 2 * NGhost
  /\ \E c \in WrittenCells : \E d \in WrittenCells :
       Filled(c) /\ ~Filled(d) /\ Along(c, bvals.DIR) > Along(d, bvals.DIR)

\* the buffer of the representation that coarse does not select
OtherOf(bv) == IF bv.coarse THEN bv.fine ELSE bv.coarse_buf

\* the cells of the selected buffer that belong to the variable of the block
\* with index v, if the pack views it
CellsOfVariable(v) ==
  {c \in DOMAIN PackedOf(bvals) : c[1] + 1 <= Len(bvals.view) /\ bvals.view[c[1] + 1] = v}

\* cell c of the selected buffer is as before the call
Untouched(c) == PackedOf(bvals)[c] = PreCall(c)

(***************************************************************************)
(* C32: a boundary function call GenericBC<DIR, SIDE, TYPE>(rc, coarse)    *)
(* modifies only cells of the ghost region of face (DIR, SIDE), only of    *)
(* allocated variables flagged FillGhost and only in the representation    *)
(* that coarse selects: interior cells, the ghost cells of the opposite    *)
(* side of DIR, the variables without FillGhost, the variables that are    *)
(* not allocated and the other representation are as before the call.      *)
(***************************************************************************)
C32_OnlyGhostsOfTheFace ==
  Filling =>
    /\ \A c \in DOMAIN PackedOf(bvals) :
         \/ Untouched(c)
         \/ /\ bvals.pack[c[1] + 1].allocated
            /\ IF bvals.SIDE = "Inner" THEN Along(c, bvals.DIR) < IntS
               ELSE Along(c, bvals.DIR) > IntE
    /\ \A v \in 1..Len(bvals.variables) :
         (~bvals.variables[v].fill_ghost \/ ~bvals.variables[v].allocated)
           => \A c \in CellsOfVariable(v) : Untouched(c)
    /\ \A c \in DOMAIN OtherOf(bvals) : OtherOf(bvals)[c] = PreCall(c)

\* a call has returned on the fine cells of a block that has a variable
\* without FillGhost and a variable that is not allocated: ghost cells of
\* the face have changed
C32_Witness ==
  /\ bvals.stage = "returned"
  /\ ~bvals.coarse
  /\ \E v \in 1..Len(bvals.variables) : ~bvals.variables[v].fill_ghost
  /\ \E v \in 1..Len(bvals.variables) :
       bvals.variables[v].fill_ghost /\ ~bvals.variables[v].allocated
  /\ \E c \in GhostCells : ~Untouched(c)
  /\ IntE > IntS

\* the distance of ghost cell c outside the face, and the cell the kernel
\* reads for it
Distance(c) ==
  IF bvals.SIDE = "Inner" THEN IntS - Along(c, bvals.DIR) ELSE Along(c, bvals.DIR) - IntE

SourceOf(c) ==
  SourceCell(bvals.TYPE, bvals.DIR, bvals.ref, bvals.offset, c[1], c[2], c[3], c[4])

(***************************************************************************)
(* C34: for a Reflect boundary with nghost ghost cells and an interior of  *)
(* at least nghost cells in direction DIR the mirrored source index        *)
(* offset - idx of every ghost cell lies in the interior range [s, e]:     *)
(* the ghost cell at distance d, 1 <= d <= nghost, outside the face reads  *)
(* the interior cell at distance d - 1 inside the face, on both sides.     *)
(***************************************************************************)
C34_MirrorInInterior ==
  (bvals.stage \in {"par_for", "returned"} /\ bvals.TYPE = "Reflect"
     /\ IntE - IntS + 1 >= NGhost) =>
    \A c \in WrittenCells :
      /\ Distance(c) \in 1..NGhost
      /\ Along(SourceOf(c), bvals.DIR) \in IntS..IntE
      /\ Along(SourceOf(c), bvals.DIR) =
           IF bvals.SIDE = "Inner" THEN IntS + (Distance(c) - 1)
           ELSE IntE - (Distance(c) - 1)
      /\ SourceOf(c) = Moved(c, bvals.DIR, Along(SourceOf(c), bvals.DIR))
      /\ Filled(c) =>
           PackedOf(bvals)[c] \in
             {PreCall(Moved(c, bvals.DIR,
                            IF bvals.SIDE = "Inner" THEN IntS + (Distance(c) - 1)
                            ELSE IntE - (Distance(c) - 1))) * sign : sign \in {-1, 1}}

\* the interior has just nghost cells: the outermost ghost cell of a Reflect
\* call that has returned reads the interior cell of the far end
C34_Witness ==
  /\ bvals.stage = "returned"
  /\ bvals.TYPE = "Reflect"
  /\ IntE - IntS + 1 = NGhost
  /\ \E c \in WrittenCells :
       /\ Distance(c) = NGhost
       /\ Along(SourceOf(c), bvals.DIR) = (IF bvals.SIDE = "Inner" THEN IntE ELSE IntS)
       /\ PackedOf(bvals)[c] \in {PreCall(SourceOf(c)), -PreCall(SourceOf(c))}

\* no rank has raised a fatal error
NoFatalError == \A r \in Ranks : pc[r] # "failed"

(***************************************************************************)
(* C27: under fair scheduling of the ranks an output event in which no     *)
(* rank raises a fatal error completes on every rank; no rank blocks       *)
(* forever in a collective operation waiting for a rank that never issues  *)
(* the matching call.  Every rank that can take a step takes it in the     *)
(* end, so the event fails to complete exactly if it reaches a state in    *)
(* which no rank can take a step and some rank is not done.                *)
(***************************************************************************)
C27_NoRankBlocksForever ==
  (Quiescent /\ NoFatalError) => \A r \in Ranks : pc[r] = "done"

\* the dataset writes of variables that rank r has issued
VariableWritesOf(r) == {written[r][k] : k \in VariableWrites(r)}

(***************************************************************************)
(* C28: for each variable all ranks that issue its dataset write declare   *)
(* the same global shape [nbtotal, nx3, nx2, nx1, vlen], vlen being the    *)
(* component count of the variable in the set, and the local count of a    *)
(* rank is [local block count, nx3, nx2, nx1, vlen].                       *)
(***************************************************************************)
C28_SameGlobalShape ==
  \A r \in Ranks : \A w \in VariableWritesOf(r) :
    /\ \E i \in 1..Len(all_unique_vars[r]) :
         /\ all_unique_vars[r][i].label = w.name
         /\ w.global = <<nbtotal, nx3, nx2, nx1, all_unique_vars[r][i].vlen>>
         /\ w.count = <<Len(block_list[r]), nx3, nx2, nx1, all_unique_vars[r][i].vlen>>
    /\ \A q \in Ranks : \A x \in VariableWritesOf(q) :
         x.name = w.name => x.global = w.global

\* two ranks with different block counts have both issued the write of the
\* variable b of two components
C28_Witness ==
  /\ nranks = 2
  /\ Len(block_list[0]) # Len(block_list[1])
  /\ \E w \in VariableWritesOf(0) : \E x \in VariableWritesOf(1) :
       w.name = <<98>> /\ x.name = <<98>> /\ w.global[5] = 2 /\ w.count # x.count

(***************************************************************************)
(* C29: the chunk shape of the dataset of a variable is the full           *)
(* (k, j, i, component) extent of one block: [1, nx3, nx2, nx1, vlen] for  *)
(* a variable of vlen components.                                          *)
(***************************************************************************)
C29_ChunkIsBlockExtent ==
  \A r \in Ranks : \A w \in VariableWritesOf(r) :
    w.chunk = <<1, nx3, nx2, nx1, w.count[5]>>

(***************************************************************************)
(* Output events of ranks with one block each, some of them with no        *)
(* variable selected for output.                                           *)
(***************************************************************************)
BareKinds == {<<>>, <<cD1>>, <<bD2, aS1>>}

InitRounds ==
  /\ nranks \in 1..MaxRanks
  /\ block_list \in [Ranks -> {<<kind>> : kind \in BareKinds}]
  /\ pc = PerRank("start")
  /\ err = PerRank("none")
  /\ all_unique_vars = PerRank(<<>>)
  /\ label_buffer = PerRank(<<>>)
  /\ code_buffer = PerRank(<<>>)
  /\ buffer_lengths = PerRank(<<>>)
  /\ all_labels_buffer = PerRank(<<>>)
  /\ all_codes = PerRank(<<>>)
  /\ all_labels = PerRank(<<>>)
  /\ sparse_names = PerRank(<<>>)
  /\ var_idx = PerRank(0)
  /\ coll = PerRank(<<>>)
  /\ restart_ = FALSE
  /\ InitWriter(FirstOutput)
  /\ bvals = [stage |-> "idle"]
  /\ codec = [stage |-> "idle"]
  /\ mesh = <<>>
  /\ outcome = <<>>
  /\ descriptor = [stage |-> "idle"]
  /\ vtk = [stage |-> "idle"]

SpecRounds == InitRounds /\ [][Next]_vars

\* the collective calls of the reconciliation that rank r has made: those
\* that are no dataset writes
RECURSIVE ReconcileCalls(_)
ReconcileCalls(calls) ==
  IF calls = <<>> THEN <<>>
  ELSE (IF Head(calls).op \in {"Allgather", "Allgatherv"} THEN <<Head(calls).op>> ELSE <<>>)
         \o ReconcileCalls(Tail(calls))

\* the collective calls of the reconciliation in the order of the code: the
\* exchange of the lengths, the gather of the labels, the gather of the codes
ReconcileOrder == <<"Allgather", "Allgatherv", "Allgatherv">>

\* the number of these calls that rank r has entered where it stands
EnteredAt(r) ==
  CASE pc[r] = "start" -> 0
    [] pc[r] = "wait_lengths" -> 1
    [] pc[r] = "wait_labels" -> 2
    [] pc[r] = "failed" -> IF coll[r] = <<>> THEN 0 ELSE 3
    [] OTHER -> 3

\* rank r is through the communication of the reconciliation
ThroughGathers(r) == pc[r] \notin {"start", "wait_lengths", "wait_labels", "wait_codes"}
                       /\ coll[r] # <<>>

\* the rounds of a sequence of calls: a round is a run of calls of one kind
RECURSIVE Rounds(_)
Rounds(ops) ==
  IF ops = <<>> THEN 0
  ELSE IF Len(ops) > 1 /\ ops[1] = ops[2] THEN Rounds(Tail(ops))
  ELSE 1 + Rounds(Tail(ops))

\* the number of variables rank r has locally
LocalVariables(r) ==
  Cardinality(UNION {{block_list[r][b][v].label : v \in 1..Len(block_list[r][b])} :
                       b \in 1..Len(block_list[r])})

(***************************************************************************)
(* C30: the number and the order of the collective communication calls of  *)
(* the reconciliation are the same on every rank, however many variables   *)
(* this or any other rank has, none included: wherever a rank stands it    *)
(* has entered the calls of the code up to there, in their order, and once *)
(* through it has made the round of the lengths and the round of the two   *)
(* gathers, two rounds.                                                    *)
(***************************************************************************)
C30_TwoRounds ==
  \A r \in Ranks :
    /\ ReconcileCalls(coll[r]) = SubSeq(ReconcileOrder, 1, EnteredAt(r))
    /\ ThroughGathers(r) => Rounds(ReconcileCalls(coll[r])) = 2

\* a rank without variables and a rank with two are both through
C30_Witness ==
  \E r \in Ranks : \E q \in Ranks :
    /\ LocalVariables(r) = 0 /\ LocalVariables(q) = 2
    /\ ThroughGathers(r) /\ ThroughGathers(q)
    /\ ReconcileCalls(coll[r]) = ReconcileCalls(coll[q])
    /\ Len(ReconcileCalls(coll[r])) = 3

\* the groups rank r has made in the file of the event
GroupsOf(r) == Range(groups[r])

\* the kinds of dataset rank r has written
KindsWritten(r) == {written[r][k].kind : k \in 1..Len(written[r])}

(***************************************************************************)
(* C33: an output event writes the Input, Mesh and Blocks groups exactly   *)
(* if it is a restart output, and writes the Locations group and produces  *)
(* the companion description file exactly if it is not; the Info group,    *)
(* the variable datasets and SparseInfo are written in both kinds.  The    *)
(* groups are there on every rank that has begun the event, the datasets   *)
(* and the companion file once the rank has completed it.                  *)
(***************************************************************************)
C33_GroupsByKindOfOutput ==
  \A r \in Ranks :
    /\ Started(r) =>
         /\ \A g \in {"/Input", "/Mesh", "/Blocks"} : g \in GroupsOf(r) <=> restart_
         /\ "/Locations" \in GroupsOf(r) <=> ~restart_
         /\ "/Info" \in GroupsOf(r)
         /\ "blocks" \in KindsWritten(r) <=> restart_
         /\ "locations" \in KindsWritten(r) <=> ~restart_
    /\ ~Started(r) => GroupsOf(r) = {} /\ KindsWritten(r) = {}
    /\ xdmf[r] # <<>> => ~restart_
    /\ pc[r] = "done" =>
         /\ "sparse" \in KindsWritten(r)
         /\ \A label \in {x.label : x \in VarsOfRank(r)} : Issued(r, label)
         /\ r = 0 => (xdmf[r] # <<>> <=> ~restart_)

\* rank 0 has completed a restart output with a variable dataset
C33_Witness ==
  /\ restart_
  /\ pc[0] = "done"
  /\ GroupsOf(0) = {"/Input", "/Info", "/Mesh", "/Blocks"}
  /\ KindsWritten(0) = {"blocks", "variable", "sparse"}
  /\ xdmf[0] = <<>>

\* the ranks that have the variable with this label on some local block
Holders(label) ==
  {q \in Ranks : \E b \in 1..Len(block_list[q]) : Found(block_list[q][b], label)}

\* the datasets of variables in the file: those some rank has written
DatasetsOfVariables == UNION {{w.name : w \in VariableWritesOf(q)} : q \in Ranks}

\* the event has completed on every rank
Completed == \A r \in Ranks : pc[r] = "done"

(***************************************************************************)
(* C36: in an output event without a fatal error every variable of the     *)
(* GlobalVariableSet is present on at least one block of at least one      *)
(* rank, and a rank that has it on a block issues its dataset write when   *)
(* its loop comes to the variable; when the event has completed, for every *)
(* variable some rank has issued the write and the file has one dataset    *)
(* per variable of the set.                                                *)
(***************************************************************************)
C36_EveryVariableHasItsDataset ==
  NoFatalError =>
    \A r \in Ranks :
      PastReconcile(r) =>
        /\ \A i \in 1..Len(all_unique_vars[r]) :
             LET label == all_unique_vars[r][i].label
             IN  /\ Holders(label) # {}
                 /\ \A q \in Holders(label) :
                      (PastReconcile(q) /\ \E n \in 1..Len(all_unique_vars[q]) :
                         all_unique_vars[q][n].label = label /\ PastVariable(q, n))
                        => Issued(q, label)
                 /\ Completed => \E q \in Ranks : Issued(q, label)
        /\ Completed => DatasetsOfVariables = Range(LabelsOf(all_unique_vars[r]))

\* an event of two ranks has completed with a file of three datasets, for a
\* set of three variables
C36_Witness ==
  /\ nranks = 2
  /\ Completed
  /\ Len(all_unique_vars[0]) = 3
  /\ Cardinality(DatasetsOfVariables) = 3
  /\ block_list[0] # block_list[1]

\* rank r has raised a fatal error in the event, before or in this step
Fatal(r) == err'[r] # "none"

\* the writes of variables and of SparseInfo that rank r has issued
PayloadWrites(r) == SelectSeq(written[r], LAMBDA w : w.kind \in {"variable", "sparse"})

(***************************************************************************)
(* C37: an output event that ends in a fatal error on a rank (component    *)
(* count out of range, mismatched lengths for a label, malformed label     *)
(* buffer, missing dense variable) leaves the rank's file_number and       *)
(* next_time of output_params and their entries in the run configuration   *)
(* unchanged; the rank issues no further dataset write and produces no     *)
(* companion description for the event.  The step that raises the error    *)
(* and every later step leave all of these as they are, and the rank that  *)
(* has raised the error has left the function.                             *)
(***************************************************************************)
C37_FatalLeavesParameters ==
  /\ [](\A r \in Ranks :
          err[r] # "none" =>
            /\ pc[r] = "failed"
            /\ err[r] \in {"vlen", "lengths", "no_tab", "empty_label", "sizes", "dense"}
            /\ pin[r].file_number = output_params[r].file_number
            /\ pin[r].next_time = output_params[r].next_time
            /\ Number(files[r][Len(files[r])].number) = output_params[r].file_number
            /\ Len(xdmf[r]) < Len(files[r])
            /\ \A k \in 1..Len(written[r]) : written[r][k].kind # "sparse")
  /\ [][\A r \in Ranks :
          Fatal(r) =>
            /\ output_params'[r] = output_params[r]
            /\ pin'[r] = pin[r]
            /\ xdmf'[r] = xdmf[r]
            /\ sparse_fields'[r] = sparse_fields[r]
            /\ files'[r] = files[r] \/ err[r] = "none"
            /\ PayloadWrites(r)' = PayloadWrites(r)
            /\ err[r] # "none" => (written'[r] = written[r] /\ coll'[r] = coll[r])]_vars

\* an event of an output object that is at file number 99998 has ended in
\* the fatal error for a missing dense variable after the write of a variable
C37_Witness ==
  \E r \in Ranks :
    /\ pc[r] = "failed" /\ err[r] = "dense"
    /\ VariableWrites(r) # {}
    /\ output_params[r].file_number = 99998 /\ pin[r].next_time = 5

(***************************************************************************)
(* StateDescriptor::AddField(field_name, m, owner): a sequence of calls on *)
(* one StateDescriptor.  m is passed by reference; the call may change its *)
(* associated name.  PARTHENON_REQUIRE ends the program.                   *)
(***************************************************************************)
MaxAdds == 3

FieldNames == {"f", "g"}

\* DerivedOwnership
Owners == {"shared", "unique"}

\* a Metadata object: the flag Metadata::Sparse, the shape, the associated name
Meta(sparse, shape_, associated) ==
  [sparse |-> sparse, shape |-> shape_, associated |-> associated]

Metadatas ==
  {Meta(FALSE, sh, as) : sh \in {1, 2}, as \in {"", "g"}} \cup {Meta(TRUE, 1, "")}

\* m.IsSet(Metadata::Sparse)
IsSetSparse(m) == m.sparse

\* mprev == m: the flags and the shape are the same, the associated names
\* may differ
MetadataEq(a, b) == a.sparse = b.sparse /\ a.shape = b.shape

\* if (!assoc.length()) m.Associate(field_name)
AssociateIfNone(m, field_name) ==
  IF m.associated = "" THEN [m EXCEPT !.associated = field_name] ELSE m

\* a find that never finds the field
FindsNever(metadataMap, field_name) == FALSE

\* metadataMap_.find(field_name) != metadataMap_.end()
Finds(metadataMap, field_name) == field_name \in DOMAIN metadataMap

\* map[field_name] = value
Put(map, field_name, value) ==
  [n \in DOMAIN map \cup {field_name} |-> IF n = field_name THEN value ELSE map[n]]

InitFields ==
  /\ nranks = 1
  /\ block_list = PerRank(<<>>)
  /\ pc = PerRank("done")
  /\ err = PerRank("none")
  /\ all_unique_vars = PerRank(<<>>)
  /\ label_buffer = PerRank(<<>>)
  /\ code_buffer = PerRank(<<>>)
  /\ buffer_lengths = PerRank(<<>>)
  /\ all_labels_buffer = PerRank(<<>>)
  /\ all_codes = PerRank(<<>>)
  /\ all_labels = PerRank(<<>>)
  /\ sparse_names = PerRank(<<>>)
  /\ var_idx = PerRank(0)
  /\ coll = PerRank(<<>>)
  /\ restart_ = FALSE
  /\ InitWriter(FirstOutput)
  /\ bvals = [stage |-> "idle"]
  /\ codec = [stage |-> "idle"]
  /\ mesh = <<>>
  /\ outcome = <<>>
  /\ descriptor = [stage |-> "ready", metadataMap_ |-> <<>>, sparseMetadataMap_ |-> <<>>,
                   calls |-> <<>>]
  /\ vtk = [stage |-> "idle"]

\* what one call does: the maps after it, m after it and what it returns,
\* "fatal" for a PARTHENON_REQUIRE that fails
AddFieldResult(d, field_name, m, owner) ==
  IF IsSetSparse(m)
  THEN [metadataMap_       |-> d.metadataMap_,
        sparseMetadataMap_ |->
          Put(d.sparseMetadataMap_, field_name,
              IF Finds(d.sparseMetadataMap_, field_name)
              THEN Append(d.sparseMetadataMap_[field_name], m) ELSE <<m>>),
        m |-> m, returns |-> "true"]
  ELSE LET m1 == AssociateIfNone(m, field_name)
       IN  IF Finds(d.metadataMap_, field_name)
           THEN [metadataMap_       |-> d.metadataMap_,
                 sparseMetadataMap_ |-> d.sparseMetadataMap_,
                 m |-> m1,
                 returns |-> IF owner = "unique" THEN "fatal"
                             ELSE IF ~MetadataEq(d.metadataMap_[field_name], m1)
                             THEN "fatal" ELSE "false"]
           ELSE [metadataMap_       |-> Put(d.metadataMap_, field_name, m1),
                 sparseMetadataMap_ |-> d.sparseMetadataMap_,
                 m |-> [m1 EXCEPT !.associated = ""],
                 returns |-> "true"]

\* one call of AddField; calls keeps the arguments and the outcome of each call
AddField ==
  /\ descriptor.stage = "ready"
  /\ Len(descriptor.calls) < MaxAdds
  /\ \E field_name \in FieldNames : \E m \in Metadatas : \E owner \in Owners :
     \E res \in {AddFieldResult(descriptor, field_name, m, owner)} :
       descriptor' =
         [stage |-> IF res.returns = "fatal" THEN "failed" ELSE "ready",
          metadataMap_ |-> res.metadataMap_,
          sparseMetadataMap_ |-> res.sparseMetadataMap_,
          calls |-> Append(descriptor.calls,
                           [field_name |-> field_name, m |-> m, owner |-> owner,
                            returns |-> res.returns, m_after |-> res.m,
                            metadataMap_ |-> res.metadataMap_])]
  /\ UNCHANGED <<event, codec, mesh, outcome, bvals, vtk>>

NextFields == AddField

SpecFields == InitFields /\ [][NextFields]_vars

\* the calls so far that add field_name as a field that is not sparse
AddsOf(field_name) ==
  {k \in 1..Len(descriptor.calls) :
     descriptor.calls[k].field_name = field_name /\ ~descriptor.calls[k].m.sparse}

\* the registry of the fields that are not sparse before call k
RegistryBefore(k) == IF k = 1 THEN <<>> ELSE descriptor.calls[k - 1].metadataMap_

(***************************************************************************)
(* C38: after any sequence of StateDescriptor::AddField calls each field   *)
(* name that is not sparse maps to the metadata of its first AddField      *)
(* call: the first add of a name returns true and registers it; a later    *)
(* add of the same name returns false and leaves the registry unchanged    *)
(* when the metadata is equal and the ownership is not unique, and fails   *)
(* fatally, registry unchanged, when the ownership is unique or the        *)
(* metadata differs.  The metadata registered carries the name of the      *)
(* field as its associated name when the call gave none.                   *)
(***************************************************************************)
C38_FirstAddWins ==
  descriptor.stage \in {"ready", "failed"} =>
    /\ DOMAIN descriptor.metadataMap_ = {n \in FieldNames : AddsOf(n) # {}}
    /\ \A n \in FieldNames : \A k \in AddsOf(n) :
         LET call  == descriptor.calls[k]
             first == \A k0 \in AddsOf(n) : k0 >= k
         IN  IF first
             THEN /\ call.returns = "true"
                  /\ descriptor.metadataMap_[n] = AssociateIfNone(call.m, n)
                  /\ \A n2 \in DOMAIN RegistryBefore(k) :
                       call.metadataMap_[n2] = RegistryBefore(k)[n2]
             ELSE /\ call.metadataMap_ = RegistryBefore(k)
                  /\ call.returns =
                       IF /\ call.owner # "unique"
                          /\ MetadataEq(descriptor.metadataMap_[n],
                                        AssociateIfNone(call.m, n))
                       THEN "false" ELSE "fatal"
    /\ \A k \in 1..Len(descriptor.calls) :
         /\ descriptor.calls[k].m.sparse =>
              descriptor.calls[k].metadataMap_ = RegistryBefore(k)
         /\ descriptor.calls[k].returns = "fatal" => k = Len(descriptor.calls)

\* a field was added, added again with equal metadata, and then added with
\* another shape: the registry holds the metadata of the first call
C38_Witness ==
  /\ descriptor.stage = "failed"
  /\ Len(descriptor.calls) = 3
  /\ AddsOf("f") = {1, 2, 3}
  /\ descriptor.calls[2].returns = "false"
  /\ descriptor.calls[3].owner = "shared"
  /\ descriptor.calls[3].m.shape # descriptor.calls[1].m.shape
  /\ descriptor.metadataMap_["f"].shape = descriptor.calls[1].m.shape

(***************************************************************************)
(* VTKOutput::WriteContainer on one block: the row buffer data, the        *)
(* coordinates written through it, then one row of ncells1 values for      *)
(* every variable and every (k, j).                                        *)
(***************************************************************************)
MaxCells1 == 3

MaxCells23 == 2

MaxVtkVars == 2

\* a float in memory: what it is the value of and whether its bytes are in
\* the reverse of the order of the machine
Float(what, swapped) == [what |-> what, swapped |-> swapped]

\* new float[...]: no value yet
Indeterminate == Float(<<"indeterminate">>, FALSE)

\* static_cast<float>((*v)(k, j, i)) of variable n
FloatOf(n, k, j, i) == Float(<<"v", n, k, j, i>>, FALSE)

Swap4Bytes(f) == [f EXCEPT !.swapped = ~f.swapped]

\* what fwrite puts into the file for a float in memory: the value and
\* whether its bytes are in big endian order on the file
OnFile(f, big_end) == [what |-> f.what, big_endian |-> (f.swapped # big_end)]

\* if (ncells > 1) ncoord++
NCoord(ncells) == IF ncells > 1 THEN ncells + 1 ELSE ncells

Max3(a, b, c) ==
  IF a >= b /\ a >= c THEN a ELSE IF b >= c THEN b ELSE c

\* the buffer after the coordinates of one axis went through it: ncoord
\* values from position 0 on, swapped on a little endian machine
WriteCoordinates(data, axis, ncoord, big_end) ==
  [p \in DOMAIN data |->
     IF p < ncoord THEN Float(<<axis, p>>, ~big_end) ELSE data[p]]

\* the buffer when the loop over the variables starts
DataAfterCoordinates(ncells1, ncells2, ncells3, big_end) ==
  LET ndata == Max3(NCoord(ncells1), NCoord(ncells2), NCoord(ncells3))
      d0 == [p \in 0..(3 * ndata) |-> Indeterminate]
      d1 == WriteCoordinates(d0, "x1", NCoord(ncells1), big_end)
      d2 == WriteCoordinates(d1, "x2", NCoord(ncells2), big_end)
  IN  WriteCoordinates(d2, "x3", NCoord(ncells3), big_end)

\* for (int i = out_is; i <= out_ie; i++, index++)
\*   data[(i - out_is) + index] = (*v)(k, j, i);
RECURSIVE FillRow(_, _, _, _, _, _, _, _)
FillRow(data, n, k, j, out_is, out_ie, i, index) ==
  IF i > out_ie THEN data
  ELSE FillRow([data EXCEPT ![(i - out_is) + index] = FloatOf(n, k, j, i)],
               n, k, j, out_is, out_ie, i + 1, index + 1)

\* if (!big_end) for (i = 0; i < ncells1; ++i) Swap4Bytes(&data[i])
SwapRow(data, ncells1, big_end) ==
  [p \in DOMAIN data |->
     IF ~big_end /\ p < ncells1 THEN Swap4Bytes(data[p]) ELSE data[p]]

\* the indices of the block written, with or without the ghost zones
OutRange(s, e, include_ghost_zones, always) ==
  IF include_ghost_zones /\ (always \/ s # e)
  THEN <<s - NGhost, e + NGhost>> ELSE <<s, e>>

InitVtk ==
  /\ nranks = 1
  /\ block_list = PerRank(<<>>)
  /\ pc = PerRank("done")
  /\ err = PerRank("none")
  /\ all_unique_vars = PerRank(<<>>)
  /\ label_buffer = PerRank(<<>>)
  /\ code_buffer = PerRank(<<>>)
  /\ buffer_lengths = PerRank(<<>>)
  /\ all_labels_buffer = PerRank(<<>>)
  /\ all_codes = PerRank(<<>>)
  /\ all_labels = PerRank(<<>>)
  /\ sparse_names = PerRank(<<>>)
  /\ var_idx = PerRank(0)
  /\ coll = PerRank(<<>>)
  /\ restart_ = FALSE
  /\ InitWriter(FirstOutput)
  /\ bvals = [stage |-> "idle"]
  /\ codec = [stage |-> "idle"]
  /\ mesh = <<>>
  /\ outcome = <<>>
  /\ descriptor = [stage |-> "idle"]
  /\ \E big_end \in BOOLEAN : \E include_ghost_zones \in BOOLEAN :
     \E bnx1 \in 1..MaxCells1 : \E bnx2 \in 1..MaxCells23 : \E bnx3 \in 1..MaxCells23 :
     \E nvars \in 1..MaxVtkVars :
       LET x1 == OutRange(NGhost, NGhost + bnx1 - 1, include_ghost_zones, TRUE)
           x2 == OutRange(NGhost, NGhost + bnx2 - 1, include_ghost_zones, FALSE)
           x3 == OutRange(NGhost, NGhost + bnx3 - 1, include_ghost_zones, FALSE)
       IN  vtk = [stage |-> "fill", big_end |-> big_end, nvars |-> nvars,
                  out_is |-> x1[1], out_ie |-> x1[2],
                  out_js |-> x2[1], out_je |-> x2[2],
                  out_ks |-> x3[1], out_ke |-> x3[2],
                  ncells1 |-> x1[2] - x1[1] + 1,
                  data |-> DataAfterCoordinates(x1[2] - x1[1] + 1, x2[2] - x2[1] + 1,
                                                x3[2] - x3[1] + 1, big_end),
                  n |-> 1, k |-> x3[1], j |-> x2[1],
                  file |-> <<>>]

\* the loop over i of one row
VtkFillRow ==
  /\ vtk.stage = "fill"
  /\ vtk' = [vtk EXCEPT
               !.stage = "write",
               !.data = FillRow(vtk.data, vtk.n, vtk.k, vtk.j,
                                vtk.out_is, vtk.out_ie, vtk.out_is, 0)]
  /\ UNCHANGED <<event, codec, mesh, outcome, bvals, descriptor>>

\* the swap and the fwrite of one row, then the next j, k and variable
VtkWriteRow ==
  /\ vtk.stage = "write"
  /\ LET swapped == SwapRow(vtk.data, vtk.ncells1, vtk.big_end)
         row == [n |-> vtk.n, k |-> vtk.k, j |-> vtk.j,
                 values |-> [p \in 1..vtk.ncells1 |-> OnFile(swapped[p - 1], vtk.big_end)]]
         lastj == vtk.j = vtk.out_je
         lastk == vtk.k = vtk.out_ke
     IN  vtk' = [vtk EXCEPT
                   !.data = swapped,
                   !.file = Append(vtk.file, row),
                   !.j = IF lastj THEN vtk.out_js ELSE vtk.j + 1,
                   !.k = IF ~lastj THEN vtk.k ELSE IF lastk THEN vtk.out_ks ELSE vtk.k + 1,
                   !.n = IF lastj /\ lastk THEN vtk.n + 1 ELSE vtk.n,
                   !.stage = IF lastj /\ lastk /\ vtk.n = vtk.nvars
                             THEN "done" ELSE "fill"]
  /\ UNCHANGED <<event, codec, mesh, outcome, bvals, descriptor>>

NextVtk == VtkFillRow \/ VtkWriteRow

SpecVtk == InitVtk /\ [][NextVtk]_vars

(***************************************************************************)
(* C39: for every variable and every (k, j) row of a block,                *)
(* VTKOutput::WriteContainer writes to the file exactly the ncells1 values *)
(* v(k, j, out_is), ..., v(k, j, out_ie) in increasing i order: before the *)
(* row is written, position p of the row buffer (0 <= p < ncells1) holds   *)
(* v(k, j, out_is + p).                                                    *)
(***************************************************************************)
C39_RowBufferHoldsTheRow ==
  /\ vtk.stage = "write" =>
       \A p \in 0..(vtk.ncells1 - 1) :
         vtk.data[p] = FloatOf(vtk.n, vtk.k, vtk.j, vtk.out_is + p)
  /\ vtk.stage \in {"fill", "write", "done"} =>
       \A r \in 1..Len(vtk.file) :
         LET row == vtk.file[r]
         IN  row.values =
               [p \in 1..vtk.ncells1 |->
                  [what |-> FloatOf(row.n, row.k, row.j, vtk.out_is + p - 1).what,
                   big_endian |-> TRUE]]

\* what the loop does: the value of cell out_is + q is at position 2q, the
\* positions in between keep what the buffer held before
C39_ValuesAtEvenPositions ==
  vtk.stage = "write" =>
    \A q \in 0..(vtk.ncells1 - 1) :
      vtk.data[2 * q] = FloatOf(vtk.n, vtk.k, vtk.j, vtk.out_is + q)

\* a row of two cells was written: its second value on the file is not a
\* value of the variable
C39_StaleValueOnFile ==
  /\ vtk.stage = "done"
  /\ vtk.ncells1 = 2
  /\ Len(vtk.file) = 1
  /\ vtk.file[1].values[1].what = <<"v", 1, vtk.out_ks, vtk.out_js, vtk.out_is>>
  /\ vtk.file[1].values[2].what[1] # "v"

====
